---- MODULE Spec2Model ----
(***************************************************************************)
(* Sandwich-Producer: the event pipeline (Manager.ForwardEvents and the    *)
(* marshalers), the cache projection it maintains in redis, and the part   *)
(* of the session that feeds it: Session.Open, listen and heartbeat frame  *)
(* by frame, Session.reconnect and Manager.Close.  Package gateway is     *)
(* modelled by the limiters its shards pass before they dial, by the shard *)
(* groups of Manager.Scale and by the shard count and shard ids that       *)
(* Manager.Open works out.                                                 *)
(*                                                                         *)
(* The redis store is modelled by its hashes and sets; redis calls are     *)
(* taken to succeed (no transport error is injected).                      *)
(***************************************************************************)
EXTENDS Integers, Sequences, FiniteSets, TLC

VARIABLES
    Configuration,        \* managerConfiguration (features, ignored, blacklist)
    eventChannel,         \* Manager.eventChannel: queue of Event
    produceChannel,       \* Manager.produceChannel: queue of StreamEvent
    Unavailables,         \* Manager.Unavailables: guild id -> bool
    UnavailableCounters,  \* Manager.UnavailableCounters: shard id -> LockSet.Values
    guilds,               \* hash {ns}:guilds
    roles,                \* hashes {ns}:guild:{gid}:roles, by gid
    channels,             \* hash {ns}:channels
    guildChannelIndex,    \* hashes {ns}:guild:{gid}:channels, by gid
    emojis,               \* hash {ns}:emojis
    members,              \* hashes {ns}:guild:{gid}:members, by gid
    mutual,               \* sets {ns}:user:{uid}:mutual, by uid
    session,              \* where the session of shard 0 stands
    wsConn,               \* Session.wsConn is not nil
    listening,            \* Session.listening is not nil: heartbeat and listen run
    sequence,             \* *Session.sequence
    sessionID,            \* Session.sessionID
    open,                 \* history: the frames and the result of the last Open
    observed,             \* history: the highest sequence number seen on this socket
    beat,                 \* history: the heartbeat sent last
    closing,              \* history: the last CloseWithStatus of the session
    reconnect,            \* Session.reconnect: where it stands, its wait, its history
    shards,               \* gateway: where each Shard.Open stands, what it holds
    tickets,              \* gateway: Manager.ReadyLimiter.tickets
    buckets,              \* gateway: Manager.Buckets, tokens by key
    panicked,             \* a goroutine has panicked: the process is gone
    frames,               \* number of dispatch frames the gateway has sent
    last,                 \* history: the event ForwardEvents handled last
    shardReadySince,      \* history: SHARD_READY pushed since the last READY
    ShardGroups,          \* gateway Manager.ShardGroups: key -> shard group
    ShardGroupsCounter,   \* *Manager.ShardGroupsCounter
    groups,               \* the shard groups made by Scale, and their shards
    starting,             \* the group whose Start has spawned and not registered
    stops,                \* history: the ShardGroup.Stop calls that Start made
    gatewayConfiguration, \* Configuration of the manager: shard and cluster counts
    Gateway,              \* the answer of GET /gateway/bot
    clusters,             \* gateway Manager.Open of each cluster: what it chose
    opened,               \* Manager.Open of the producer: what it chose
    handling,             \* the event ForwardEvents has received and not finished
    publishing,           \* the stream event ForwardProduce has received, unpublished
    shutdown,             \* where Manager.Close stands; history: what it found
    order                 \* the frames listen goroutines hold; history: dispatch order

vars == <<Configuration, eventChannel, produceChannel, Unavailables,
          UnavailableCounters, guilds, roles, channels, guildChannelIndex,
          emojis, members,
          mutual, session, wsConn, listening, sequence, sessionID, open,
          observed, beat, closing, reconnect, shards, tickets, buckets, panicked, frames, last,
          shardReadySince, ShardGroups, ShardGroupsCounter, groups, starting,
          stops, gatewayConfiguration, Gateway, clusters, opened, handling,
          publishing, shutdown, order>>

\* the shard groups of package gateway
scaleVars == <<ShardGroups, ShardGroupsCounter, groups, starting, stops>>

\* what Manager.Open reads and decides
openVars == <<gatewayConfiguration, Gateway, clusters, opened>>

\* the state of package gateway
gatewayVars == <<shards, tickets, buckets, scaleVars, openVars>>

\* the state of Session.reconnect
backoffVars == <<reconnect>>

\* the state of Manager.Close and of the two forwarding goroutines
shutdownVars == <<handling, publishing, shutdown>>

\* the frames that listen has read and not yet dispatched
orderVars == <<order>>

-----------------------------------------------------------------------------
(* Bounds of the model *)

\* dispatch frames the gateway sends in one behaviour
MaxFrames == 4
\* capacity of eventChannel and produceChannel (BufferSize, scaled down)
QueueCap == 1
\* highest sequence number on a dispatch frame
MaxSeq == 2
\* calls of Open that one reconnect makes
MaxAttempts == 12
\* calls of CloseWithStatus between two dials
MaxCloses == 2
\* session_start_limit.max_concurrency of GET /gateway/bot
MaxConcurrency == 1

\* calls of Manager.Scale (ShardGroup.Start) in one behaviour
MaxScales == 4
\* highest shard count that GET /gateway/bot recommends
MaxShards == 81
\* highest ClusterCount of a configuration
MaxClusters == 3

\* gateway.NewManager: MaxShardGroups: 2
MaxShardGroups == 2
\* no *ShardGroup: a key that Manager.ShardGroups does not hold
NoGroup == 0
\* ShardGroup.ShardIDs of every group that Scale makes
ShardIDs == {0, 1}

\* gateway.NewManager: MaxConcurrentIdentifies <= 0 becomes 1
MaxConcurrentIdentifies == 1
\* WaitForIdentifyRatelimit: CreateWaitForBucket(key, 1, 5*time.Second)
BucketCapacity == 1

\* ShardGroup.ShardIDs: enough shards to share an identify bucket
GatewayShards == 0 .. (2 * MaxConcurrency)
BucketKeys == 0 .. (MaxConcurrency - 1)
\* NewConcurrencyLimiter: the tickets 0 .. limit-1
Tickets == 0 .. (MaxConcurrentIdentifies - 1)

\* main(): ShardCount: 1
ShardCount == 1
\* the shard counts a configuration asks for
RequestedShards == {1, 3, 40, 70}
\* session_start_limit.total of GET /gateway/bot
SessionStartTotal == 1000

Guilds == {"g1", "g2"}
\* "" is the ID of the zero MarshalGuild
GuildKeys == Guilds \cup {""}
Names == {"n1", "n2"}
RoleIds == {"r1", "r2"}
Users == {"u1"}
\* "" is the ID of the zero User
UserKeys == Users \cup {""}
Shards == 0 .. (ShardCount - 1)

\* the numeric value of a guild id (a snowflake)
Snowflake(gid) ==
    CASE gid = "g1" -> 4194304
      [] gid = "g2" -> 8388608
      [] OTHER -> 0

-----------------------------------------------------------------------------
(* Go slices: nil and empty are different values for reflect.DeepEqual *)

NilSlice == [isNil |-> TRUE, vals |-> <<>>]
Slice(s) == [isNil |-> FALSE, vals |-> s]

Range(s) == {s[i] : i \in DOMAIN s}

\* redis hashes: functions from the fields present to their values
EmptyHash == [x \in {} |-> x]
HExists(h, k) == k \in DOMAIN h
HSet(h, k, v) == [x \in (DOMAIN h) \cup {k} |-> IF x = k THEN v ELSE h[x]]
HMSet(h, kv) == [x \in (DOMAIN h) \cup (DOMAIN kv) |->
                    IF x \in DOMAIN kv THEN kv[x] ELSE h[x]]
HDel(h, ks) == [x \in (DOMAIN h) \ ks |-> h[x]]

-----------------------------------------------------------------------------
(* utils.go: LockSet *)

LockSet_Remove(values, val) == SelectSeq(values, LAMBDA x : x # val)

LockSet_Add(values, val) ==
    IF val \in Range(values) THEN values ELSE Append(values, val)

\* a belongsToList that finds nothing
belongsToList_Never(list, lookup) == FALSE

belongsToList(list, lookup) == lookup \in list

-----------------------------------------------------------------------------
(* old/user.go: MarshalGuild.  RoleValues, ChannelValues, EmojiValues and  *)
(* Members carry the tag msgpack:"-": they are decoded from the gateway's  *)
(* JSON and never written to, nor read back from, redis.                   *)

ZeroGuild ==
    [ID |-> "", Name |-> "",
     Roles |-> NilSlice, Channels |-> NilSlice, Emojis |-> NilSlice,
     RoleValues |-> NilSlice, ChannelValues |-> NilSlice,
     EmojiValues |-> NilSlice, Members |-> NilSlice]

IDs(slice) == [i \in DOMAIN slice.vals |-> slice.vals[i].ID]

\* json.Unmarshal of the payload, then the id lists rebuilt with make+append
MarshalGuild_Create(data) ==
    [ID |-> data.id, Name |-> data.name,
     Roles |-> Slice(IDs(data.roles)),
     Channels |-> Slice(IDs(data.channels)),
     Emojis |-> Slice(IDs(data.emojis)),
     RoleValues |-> data.roles, ChannelValues |-> data.channels,
     EmojiValues |-> data.emojis, Members |-> data.members]

\* msgpack.Marshal(mg): the fields without the "-" tag
MarshalGuild_Marshal(mg) ==
    [id |-> mg.ID, name |-> mg.Name, roles |-> mg.Roles,
     channels |-> mg.Channels, emojis |-> mg.Emojis]

\* msgpack.Unmarshal into a zero MarshalGuild
MarshalGuild_From(bytes) ==
    [ZeroGuild EXCEPT !.ID = bytes.id, !.Name = bytes.name,
                      !.Roles = bytes.roles, !.Channels = bytes.channels,
                      !.Emojis = bytes.emojis]

\* the map Save builds from a slice of values: id -> msgpack.Marshal(value)
ValueMap(slice) ==
    [k \in Range(IDs(slice)) |->
        LET i == CHOOSE j \in DOMAIN slice.vals :
                    /\ slice.vals[j].ID = k
                    /\ \A l \in DOMAIN slice.vals :
                          slice.vals[l].ID = k => l <= j
        IN  slice.vals[i]]

\* a Save that stores the roles, channels and emojis but not the guild
MarshalGuild_Save_NoGuild(m, mg) ==
    [m EXCEPT
        !.roles[mg.ID] = HMSet(@, ValueMap(mg.RoleValues)),
        !.channels = HMSet(@, ValueMap(mg.ChannelValues)),
        !.emojis = HMSet(@, ValueMap(mg.EmojiValues))]

MarshalGuild_Save(m, mg) ==
    LET guildRoles == ValueMap(mg.RoleValues)
        guildChannels == ValueMap(mg.ChannelValues)
        guildEmojis == ValueMap(mg.EmojiValues)
    IN  [m EXCEPT
            !.roles[mg.ID] = HMSet(@, guildRoles),
            !.channels = HMSet(@, guildChannels),
            !.emojis = HMSet(@, guildEmojis),
            !.guilds = HSet(@, mg.ID, MarshalGuild_Marshal(mg))]

\* Manager.getGuild: HGet, then From; err # nil leaves the zero value
getGuild(m, id) ==
    IF HExists(m.guilds, id)
    THEN [err |-> FALSE, g |-> MarshalGuild_From(m.guilds[id])]
    ELSE [err |-> TRUE, g |-> ZeroGuild]

\* Manager.getRole
getRole(m, guildID, roleID) ==
    IF HExists(m.roles[guildID], roleID)
    THEN [err |-> FALSE, r |-> m.roles[guildID][roleID]]
    ELSE [err |-> TRUE, r |-> [ID |-> "", Name |-> ""]]

-----------------------------------------------------------------------------
(* structs.go: Member, User.  Nothing in the program writes the hash       *)
(* {ns}:user, so the HExists of Member.Marshaled answers false and the     *)
(* member keeps the user of the payload, whose mutual set starts empty.    *)

\* Member.Marshaled(updateUser, m): AddMutual(GuildID), then SaveMutual
\* (SAdd of Mutual.Guilds, SRem of Mutual.Removed, which is empty)
Member_Marshaled(m, me, updateUser) ==
    IF updateUser
    THEN [m EXCEPT !.mutual[me.ID] = @ \cup {me.GuildID}]
    ELSE m

\* msgpack.Marshal(me)
Member_Marshal(me) == [ID |-> me.ID, GuildID |-> me.GuildID]

\* the loop `for _, me := range Members { me.GuildID = ..; me.Marshaled(true, m) }`
MarshalMembers(m, vals, guildID) ==
    LET after[i \in 0 .. Len(vals)] ==
            IF i = 0
            THEN m
            ELSE Member_Marshaled(after[i - 1],
                                  [ID |-> vals[i].ID, GuildID |-> guildID], TRUE)
    IN  after[Len(vals)]

MemberMarshals(vals, guildID) ==
    [k \in Range([i \in DOMAIN vals |-> vals[i].ID]) |->
        Member_Marshal([ID |-> k, GuildID |-> guildID])]

-----------------------------------------------------------------------------
(* Events and stream events *)

Event(type, data) == [Type |-> type, Data |-> data]

\* the zero StreamEvent
NoStreamEvent == [Type |-> "", GuildID |-> ""]
StreamEvent(type, guildID) == [Type |-> type, GuildID |-> guildID]

\* what a marshaler hands back: (ok, se) of the code, the manager after its
\* writes, the events it put into the pipeline itself, and whether it panicked
Returned(ok, se, m) ==
    [ok |-> ok, se |-> se, m |-> m, emit |-> <<>>, panic |-> FALSE]

\* (guildID >> 22) % m.Configuration.ShardCount
ShardOf(guildID) == (Snowflake(guildID) \div 4194304) % ShardCount

\* Session.OnEvent, as guildCreateMarshaler calls it: the event goes into the
\* pipeline (the events the call adds to the event channel)
Session_OnEvent(e) == <<e>>

-----------------------------------------------------------------------------
(* The marshalers *)

shardReadyMarshaler(m, e) == Returned(TRUE, NoStreamEvent, m)

shardDisconnectMarshaler(m, e) == Returned(TRUE, NoStreamEvent, m)

\* the loop `for _, g = range ready.Guilds`
ReadyLoop(m, gs, shardID) ==
    LET after[i \in 0 .. Len(gs)] ==
            IF i = 0
            THEN m
            ELSE [after[i - 1] EXCEPT
                    !.Unavailables = HSet(@, gs[i], FALSE),
                    !.UnavailableCounters[shardID] = LockSet_Add(@, gs[i])]
    IN  after[Len(gs)]

readyMarshaler(m, e) ==
    IF e.Data.guilds = <<>>
    THEN \* ready.Guilds[0]: index out of range
         [Returned(FALSE, NoStreamEvent, m) EXCEPT !.panic = TRUE]
    ELSE LET shardID == ShardOf(e.Data.guilds[1])
         IN  Returned(TRUE, NoStreamEvent, ReadyLoop(m, e.Data.guilds, shardID))

guildCreateMarshaler(m, e) ==
    LET guild == MarshalGuild_Create(e.Data)
        shardID == ShardOf(guild.ID)
        \* m2: the manager after guild.Save; ic, emit: taken before it
        AfterSave(m2, ic, emit) ==
            LET uo == HExists(m2.Unavailables, guild.ID)
                un == IF uo THEN m2.Unavailables[guild.ID] ELSE FALSE
                m3 == IF m2.Configuration.CacheMembers
                      THEN [MarshalMembers(m2, guild.Members.vals, guild.ID)
                              EXCEPT !.members[guild.ID] =
                                HMSet(@, MemberMarshals(guild.Members.vals, guild.ID))]
                      ELSE m2
            IN  IF uo \/ ic
                THEN \* the branch ends with ok = false, whatever it set before
                     [Returned(FALSE,
                               IF un /\ ic
                               THEN StreamEvent("GUILD_AVAILABLE", guild.ID)
                               ELSE NoStreamEvent,
                               IF ~(un /\ ic) THEN m3 ELSE m2)
                        EXCEPT !.emit = emit]
                ELSE [Returned(TRUE, StreamEvent("GUILD_JOIN", guild.ID), m2)
                        EXCEPT !.emit = emit]
        \* m1: the manager after counter.Remove
        AfterRemove(m1) ==
            AfterSave(MarshalGuild_Save(m1, guild),
                      HExists(m1.guilds, guild.ID),
                      IF Len(m1.UnavailableCounters[shardID]) <= 0
                      THEN Session_OnEvent(Event("SHARD_READY", [ShardID |-> shardID]))
                      ELSE <<>>)
    IN  AfterRemove([m EXCEPT !.UnavailableCounters[shardID] =
                                LockSet_Remove(@, guild.ID)])

\* UnavailableGuild.Delete: HDel {ns}:guilds id
UnavailableGuild_Delete(m, ug) == [m EXCEPT !.guilds = HDel(@, {ug.id})]

\* a GUILD_DELETE marshaler that takes every delete for the bot leaving
guildDeleteMarshaler_AlwaysLeave(m, e) ==
    Returned(TRUE, StreamEvent("GUILD_REMOVE", e.Data.id),
             UnavailableGuild_Delete(
                [m EXCEPT !.Unavailables = HDel(@, {e.Data.id})], e.Data))

guildDeleteMarshaler(m, e) ==
    LET partialGuild == e.Data
        m1 == [m EXCEPT !.Unavailables = HDel(@, {partialGuild.id})]
    IN  IF partialGuild.unavailable
        THEN Returned(TRUE, StreamEvent("GUILD_UNAVAILABLE", partialGuild.id),
                      [m1 EXCEPT !.Unavailables = HSet(@, partialGuild.id, TRUE)])
        ELSE Returned(TRUE, StreamEvent("GUILD_REMOVE", partialGuild.id),
                      UnavailableGuild_Delete(m1, partialGuild))

\* reflect.DeepEqual(&a, &b) of two structs of one type
DeepEqual(a, b) == a = b

guildUpdateMarshaler(m, e) ==
    LET updatedGuild == MarshalGuild_Create(e.Data)
        guild == getGuild(m, updatedGuild.ID).g
        m1 == MarshalGuild_Save(m, updatedGuild)
    IN  IF ~DeepEqual(guild, updatedGuild)
        THEN Returned(TRUE, StreamEvent("GUILD_UPDATE", updatedGuild.ID), m1)
        ELSE Returned(FALSE, NoStreamEvent, m1)

\* GuildRole.Save: HSet {ns}:guild:{gid}:roles role.ID
GuildRole_Save(m, gr) == [m EXCEPT !.roles[gr.guild_id] = HSet(@, gr.role.ID, gr.role)]

\* GuildRoleDelete.Delete: HDel {ns}:guild:{gid}:roles role_id
GuildRoleDelete_Delete(m, grd) ==
    [m EXCEPT !.roles[grd.guild_id] = HDel(@, {grd.role_id})]

guildRoleCreateMarshaler(m, e) ==
    LET guildRole == e.Data
        guild == getGuild(m, guildRole.guild_id).g
        m1 == GuildRole_Save(m, guildRole)
        guild1 == [guild EXCEPT
                     !.Roles = Slice(Append(@.vals, guildRole.role.ID))]
    IN  Returned(TRUE, StreamEvent("GUILD_ROLE_CREATE", guildRole.guild_id),
                 MarshalGuild_Save(m1, guild1))

guildRoleDeleteMarshaler(m, e) ==
    LET guildRole == e.Data
        guild == getGuild(m, guildRole.guild_id).g
        m1 == GuildRoleDelete_Delete(m, guildRole)
        newRoles == SelectSeq(guild.Roles.vals, LAMBDA id : id # guildRole.role_id)
        guild1 == [guild EXCEPT !.Roles = Slice(newRoles)]
    IN  Returned(TRUE, StreamEvent("GUILD_ROLE_DELETE", guild.ID),
                 MarshalGuild_Save(m1, guild1))

guildRoleUpdateMarshaler(m, e) ==
    LET guildRole == e.Data
        role == getRole(m, guildRole.guild_id, guildRole.role.ID).r
        m1 == GuildRole_Save(m, guildRole)
    IN  IF ~DeepEqual(role, guildRole.role)
        THEN Returned(TRUE, StreamEvent("GUILD_ROLE_UPDATE", guildRole.guild_id), m1)
        ELSE Returned(FALSE, NoStreamEvent, m1)

\* User{}: no ID, empty Mutual.Guilds and Mutual.Removed
ZeroUser == [ID |-> "", Guilds |-> <<>>, Removed |-> <<>>]

\* Manager.getUser: HGet {ns}:user id.  No code writes the hash {ns}:user, so
\* the HGet answers redis.Nil and the zero User is returned
getUser(m, userID) == [err |-> TRUE, u |-> ZeroUser]

\* Manager.getMember: the HGet, then println(..., err.Error()), which
\* dereferences a nil error when the member is found
getMember(m, guildID, userID) ==
    IF HExists(m.members[guildID], userID)
    THEN [err |-> FALSE, panic |-> TRUE, me |-> m.members[guildID][userID]]
    ELSE [err |-> TRUE, panic |-> FALSE, me |-> [ID |-> "", GuildID |-> ""]]

\* User.RemoveMutual: Guilds.Remove(val), Removed.Add(val)
User_RemoveMutual(u, val) ==
    [u EXCEPT !.Guilds = LockSet_Remove(@, val), !.Removed = LockSet_Add(@, val)]

\* User.SaveMutual: SAdd of Mutual.Guilds and SRem of Mutual.Removed on the
\* set {ns}:user:{u.ID}:mutual, each when the list is not empty
User_SaveMutual(m, u) ==
    [m EXCEPT !.mutual[u.ID] = (@ \cup Range(u.Guilds)) \ Range(u.Removed)]

\* Member.Delete: HDel of the member, then RemoveMutual and SaveMutual on the
\* user getUser returned
Member_Delete(m, me) ==
    User_SaveMutual([m EXCEPT !.members[me.GuildID] = HDel(@, {me.ID})],
                    User_RemoveMutual(getUser(m, me.ID).u, me.GuildID))

guildMemberAddMarshaler(m, e) ==
    LET memberPayload == e.Data
    IN  Returned(TRUE, StreamEvent("GUILD_MEMBER_ADD", memberPayload.GuildID),
                 IF m.Configuration.CacheMembers
                 THEN [Member_Marshaled(m, memberPayload, TRUE)
                         EXCEPT !.members[memberPayload.GuildID] =
                            HSet(@, memberPayload.ID, Member_Marshal(memberPayload))]
                 ELSE m)

guildMemberRemoveMarshaler(m, e) ==
    Returned(TRUE, StreamEvent("GUILD_MEMBER_REMOVE", e.Data.GuildID),
             Member_Delete(m, e.Data))

guildMemberUpdateMarshaler(m, e) ==
    LET updatedMember == e.Data
        got == getMember(m, updatedMember.GuildID, updatedMember.ID)
    IN  IF got.panic
        THEN [Returned(FALSE, NoStreamEvent, m) EXCEPT !.panic = TRUE]
        ELSE \* err # nil: return
             Returned(FALSE, NoStreamEvent, m)

guildMembersChunkMarshaler(m, e) ==
    LET chunkPayload == e.Data
        got == getGuild(m, chunkPayload.GuildID)
        vals == chunkPayload.Members
    IN  IF got.err
        THEN Returned(FALSE, NoStreamEvent, m)
        ELSE Returned(FALSE, NoStreamEvent,
                 IF m.Configuration.CacheMembers
                 THEN [MarshalMembers(m, vals, got.g.ID)
                         EXCEPT !.members[got.g.ID] =
                            HMSet(@, MemberMarshals(vals, got.g.ID))]
                 ELSE MarshalMembers(m, vals, got.g.ID))

\* structs.go: ChannelType
ChannelTypeGuildText == 0
ChannelTypeDM == 1

\* structs.go: Channel, in the fields the marshalers read or write
Channel(id, guildID, type, lastPin) ==
    [ID |-> id, GuildID |-> guildID, Type |-> type, LastPinTimestamp |-> lastPin]

\* Channel{}
ZeroChannel == Channel("", "", ChannelTypeGuildText, "")

\* Manager.getChannel: HGet {ns}:channels id; err # nil leaves the zero value
getChannel(m, id) ==
    IF HExists(m.channels, id)
    THEN [err |-> FALSE, c |-> m.channels[id]]
    ELSE [err |-> TRUE, c |-> ZeroChannel]

\* Channel.Save: HSet {ns}:channels c.ID
Channel_Save(m, c) == [m EXCEPT !.channels = HSet(@, c.ID, c)]

\* Channel.Delete: HDel {ns}:channels c.ID
Channel_Delete(m, c) == [m EXCEPT !.channels = HDel(@, {c.ID})]

guildChannelCreateMarshaler(m, e) ==
    LET guildChannel == e.Data
        guild == getGuild(m, guildChannel.GuildID).g
        guild1 == [guild EXCEPT
                     !.Channels = Slice(Append(@.vals, guildChannel.ID))]
    IN  Returned(TRUE, StreamEvent("CHANNEL_CREATE", guildChannel.GuildID),
                 MarshalGuild_Save(Channel_Save(m, guildChannel), guild1))

guildChannelUpdateMarshaler(m, e) ==
    LET updatedChannel == e.Data
        channel == getChannel(m, updatedChannel.ID).c
        m1 == Channel_Save(m, updatedChannel)
    IN  IF ~DeepEqual(channel, updatedChannel)
        THEN Returned(TRUE, StreamEvent("CHANNEL_UPDATE", updatedChannel.GuildID), m1)
        ELSE Returned(FALSE, NoStreamEvent, m1)

guildChannelDeleteMarshaler(m, e) ==
    LET guildChannel == e.Data
        guild == getGuild(m, guildChannel.GuildID).g
        newChannels == SelectSeq(guild.Channels.vals, LAMBDA id : id # guildChannel.ID)
        guild1 == [guild EXCEPT !.Channels = Slice(newChannels)]
    IN  Returned(TRUE, StreamEvent("CHANNEL_DELETE", guildChannel.GuildID),
                 MarshalGuild_Save(Channel_Delete(m, guildChannel), guild1))

guildChannelPinsUpdateMarshaler(m, e) ==
    LET pinsPayload == e.Data
        channel == getChannel(m, pinsPayload.ChannelID).c
        channel1 == [channel EXCEPT !.LastPinTimestamp = pinsPayload.LastPinTimestamp]
    IN  Returned(TRUE, StreamEvent("CHANNEL_PINS_UPDATE", pinsPayload.GuildID),
                 Channel_Save(m, channel1))

\* init(): the event types that have a marshaler
Marshalers ==
    {"READY", "SHARD_READY", "SHARD_DISCONNECT", "GUILD_CREATE", "GUILD_UPDATE",
     "GUILD_DELETE", "GUILD_ROLE_CREATE", "GUILD_ROLE_DELETE", "GUILD_ROLE_UPDATE",
     "CHANNEL_CREATE", "CHANNEL_UPDATE", "CHANNEL_DELETE", "CHANNEL_PINS_UPDATE",
     "GUILD_MEMBER_ADD", "GUILD_MEMBER_REMOVE", "GUILD_MEMBER_UPDATE",
     "GUILD_MEMBERS_CHUNK"}

marshalers(m, e) ==
    CASE e.Type = "READY" -> readyMarshaler(m, e)
      [] e.Type = "SHARD_READY" -> shardReadyMarshaler(m, e)
      [] e.Type = "SHARD_DISCONNECT" -> shardDisconnectMarshaler(m, e)
      [] e.Type = "GUILD_CREATE" -> guildCreateMarshaler(m, e)
      [] e.Type = "GUILD_UPDATE" -> guildUpdateMarshaler(m, e)
      [] e.Type = "GUILD_DELETE" -> guildDeleteMarshaler(m, e)
      [] e.Type = "GUILD_ROLE_CREATE" -> guildRoleCreateMarshaler(m, e)
      [] e.Type = "GUILD_ROLE_DELETE" -> guildRoleDeleteMarshaler(m, e)
      [] e.Type = "GUILD_ROLE_UPDATE" -> guildRoleUpdateMarshaler(m, e)
      [] e.Type = "CHANNEL_CREATE" -> guildChannelCreateMarshaler(m, e)
      [] e.Type = "CHANNEL_UPDATE" -> guildChannelUpdateMarshaler(m, e)
      [] e.Type = "CHANNEL_DELETE" -> guildChannelDeleteMarshaler(m, e)
      [] e.Type = "CHANNEL_PINS_UPDATE" -> guildChannelPinsUpdateMarshaler(m, e)
      [] e.Type = "GUILD_MEMBER_ADD" -> guildMemberAddMarshaler(m, e)
      [] e.Type = "GUILD_MEMBER_REMOVE" -> guildMemberRemoveMarshaler(m, e)
      [] e.Type = "GUILD_MEMBER_UPDATE" -> guildMemberUpdateMarshaler(m, e)
      [] e.Type = "GUILD_MEMBERS_CHUNK" -> guildMembersChunkMarshaler(m, e)

-----------------------------------------------------------------------------
(* manager.go: Manager.OnEvent *)

\* an OnEvent that answers ok whatever the marshaler returned
OnEvent_AlwaysOk(m, e) ==
    IF e.Type \in Marshalers
    THEN [marshalers(m, e) EXCEPT !.ok = TRUE, !.se = StreamEvent(e.Type, "")]
    ELSE Returned(FALSE, StreamEvent(e.Type, ""), m)

\* an OnEvent that runs no marshaler
OnEvent_NoMarshaler(m, e) == Returned(FALSE, StreamEvent(e.Type, ""), m)

OnEvent(m, e) ==
    LET found == e.Type \in Marshalers
        \* se: the marshaler's data when ok, the zero StreamEvent otherwise
        Typed(r, se) ==
            [r EXCEPT !.se = IF se.Type = "" THEN [se EXCEPT !.Type = e.Type]
                                             ELSE se]
        \* r: what the marshaler returned
        Stream(r) == Typed(r, IF r.ok THEN r.se ELSE NoStreamEvent)
    IN  Stream(IF found THEN marshalers(m, e)
                        ELSE Returned(FALSE, NoStreamEvent, m))

-----------------------------------------------------------------------------
(* session.go: the frames of the gateway protocol *)

\* Event.Operation of an inbound frame, Op of an outbound one
OpDispatch == 0
OpHeartbeat == 1
OpIdentify == 2
OpResume == 6
OpReconnect == 7
OpInvalidSession == 9
OpHello == 10
OpHeartbeatAck == 11
\* no frame
NoOp == 0 - 1

\* close codes: websocket.CloseNormalClosure, and the 4000 of onEvent's op 7
CloseNormalClosure == 1000
CloseReconnect == 4000

\* CloseWithStatus(statusCode) called by `by`: the close frame carries
\* statusCode, a SHARD_DISCONNECT with it is dispatched
Closing(by, statusCode) ==
    [by |-> by, code |-> statusCode, disconnects |-> closing.disconnects + 1]

ShardDisconnect(statusCode) ==
    [Type |-> "SHARD_DISCONNECT",
     Data |-> [ShardID |-> 0, StatusCode |-> statusCode]]

Max(a, b) == IF a >= b THEN a ELSE b

\* a frame written to the socket: Heartbeat{1, seq}, Identify{2, ...},
\* Resume{6, {Token, SessionID, Sequence}}
Written(op, sid, seq) == [Op |-> op, SessionID |-> sid, Seq |-> seq]

\* the frames the gateway sends: dispatches with a sequence number and a type,
\* and the other operations
DispatchTypes == {"READY", "RESUMED", "MESSAGE_CREATE"}

\* an op that onEvent has no case for (3, the presence update)
UnknownOps == {3}

GatewayFrames ==
    {[Op |-> OpDispatch, Sequence |-> n, Type |-> t] :
        n \in 1 .. MaxSeq, t \in DispatchTypes}
    \cup {[Op |-> o, Sequence |-> 0, Type |-> ""] :
            o \in {OpHeartbeat, OpReconnect, OpInvalidSession, OpHello,
                   OpHeartbeatAck} \cup UnknownOps}

\* the Event a dispatch frame decodes to
Decoded(f) ==
    [Type |-> f.Type,
     Data |-> IF f.Type = "READY" THEN [guilds |-> <<"g1">>] ELSE [id |-> ""]]

-----------------------------------------------------------------------------
(* gateway: the limiters of Manager *)

\* a shard that holds no ticket, that has taken no bucket
NoTicket == 0 - 1
NoKey == 0 - 1

\* a shard whose connect has met no error; websocket.CloseStatus of an error
\* that is not a close error
NoErr == 0 - 2
NoStatus == 0 - 1

\* close codes: websocket.StatusNormalClosure, and those of package events
StatusNormalClosure == 1000
CloseUnknownError == 4000
CloseAuthenticationFailed == 4004
CloseInvalidShard == 4010
CloseShardingRequired == 4011

\* websocket.CloseStatus(err) of the errors a read returns
ReadErrors ==
    {NoStatus, StatusNormalClosure, CloseUnknownError, CloseAuthenticationFailed,
     CloseInvalidShard, CloseShardingRequired}

contains(a, i) == a \in i

\* Shard.canContinue, on the close status of err (no code returns
\* ErrReconnectPlease)
canContinue(status) ==
    ~contains(status, {CloseShardingRequired, CloseAuthenticationFailed,
                       CloseInvalidShard, StatusNormalClosure})

\* WaitForIdentifyRatelimit: the key /gateway/bot/{shardID % MaxConcurrency}
BucketKey(shardID) == shardID % MaxConcurrency

\* BucketStore.CreateWaitForBucket: returns once the bucket of the key has a
\* token, which it takes
CreateWaitForBucket_Ready(b, key) == b[key] > 0
CreateWaitForBucket(b, key) == [b EXCEPT ![key] = @ - 1]

\* ConcurrencyLimiter.Wait: takes a ticket, blocking while there is none;
\* FreeTicket gives it back
ConcurrencyLimiter_Wait(ts, t) == ts \ {t}
ConcurrencyLimiter_FreeTicket(ts, t) == ts \cup {t}

-----------------------------------------------------------------------------
(* The state machine *)

\* the manager a marshaler sees
Manager ==
    [Configuration |-> Configuration, Unavailables |-> Unavailables,
     UnavailableCounters |-> UnavailableCounters, guilds |-> guilds,
     roles |-> roles, channels |-> channels, emojis |-> emojis,
     members |-> members, mutual |-> mutual]

\* the cache keys of a manager
CacheOf(m) == <<m.guilds, m.roles, m.channels, m.emojis, m.members, m.mutual>>

\* main(): the configuration the program is started with
Configurations ==
    {[CacheMembers |-> TRUE,
      IgnoredEvents |-> {"PRESENCE_UPDATE", "TYPING_START"},
      ProducerBlacklist |-> {}]}

\* NewManager takes the configuration from its caller: one that ignores an
\* event type a marshaler is registered for, and blacklists another
FilterConfigurations ==
    {[CacheMembers |-> TRUE,
      IgnoredEvents |-> {"PRESENCE_UPDATE", "TYPING_START", "GUILD_ROLE_DELETE"},
      ProducerBlacklist |-> {"GUILD_ROLE_CREATE"}]}

\* main(): ShardCount: 1, no autosharding, one cluster
MainConfigurations ==
    {[ShardCount |-> ShardCount, AutoSharded |-> FALSE, ClusterCount |-> 1]}

\* GET /gateway/bot for a small bot: one shard, the whole daily limit left
MainGateways == {[Shards |-> 1, Remaining |-> SessionStartTotal]}

\* Configuration.ShardCount, AutoSharded and ClusterCount
GatewayConfigurations ==
    [ShardCount : RequestedShards, AutoSharded : BOOLEAN,
     ClusterCount : 1 .. MaxClusters]

\* events.GatewayBot: Shards and SessionStartLimit.Remaining
GatewayBots == [Shards : 1 .. MaxShards, Remaining : {2, SessionStartTotal}]

\* a Manager of package gateway on which Open has not been called
NewCluster == [at |-> "new", chosen |-> 0, shardCount |-> 0, shardIDs |-> {},
               err |-> "none"]

\* NewManager: empty channels, empty cache (ClearCache), no session opened
NewManager ==
    /\ eventChannel = <<>>
    /\ produceChannel = <<>>
    /\ Unavailables = EmptyHash
    /\ UnavailableCounters = [sh \in Shards |-> <<>>]
    /\ guilds = EmptyHash
    /\ roles = [g \in GuildKeys |-> EmptyHash]
    /\ channels = EmptyHash
    /\ guildChannelIndex = [g \in GuildKeys |-> EmptyHash]
    /\ emojis = EmptyHash
    /\ members = [g \in GuildKeys |-> EmptyHash]
    /\ mutual = [u \in UserKeys |-> {}]
    /\ session = "closed"
    /\ wsConn = FALSE
    /\ listening = FALSE
    /\ sequence = 0
    /\ sessionID = ""
    /\ open = [result |-> "none", first |-> NoOp, second |-> NoOp,
               written |-> <<>>, dispatched |-> <<>>]
    /\ observed = 0
    /\ beat = [sent |-> FALSE, value |-> 0, floor |-> 0]
    /\ closing = [by |-> "", code |-> NoOp, disconnects |-> 0]
    /\ reconnect = [at |-> "idle", wait |-> 0, slept |-> <<>>, errs |-> <<>>]
    /\ shards = [sh \in GatewayShards |->
                   [at |-> "open", ticket |-> NoTicket, key |-> NoKey,
                    err |-> NoErr]]
    /\ tickets = Tickets
    /\ buckets = [k \in BucketKeys |-> BucketCapacity]
    /\ ShardGroups = [k \in 0 .. (MaxShardGroups - 1) |-> NoGroup]
    /\ ShardGroupsCounter = 0
    /\ groups = <<>>
    /\ starting = NoGroup
    /\ stops = {}
    /\ clusters = [c \in 0 .. (gatewayConfiguration.ClusterCount - 1) |-> NewCluster]
    /\ opened = [at |-> "new", ShardCount |-> 0, Sessions |-> {}]
    /\ handling = <<>>
    /\ publishing = <<>>
    /\ order = [inhand |-> <<>>, queued |-> <<>>]
    /\ shutdown = [at |-> "running", to |-> 0, ahead |-> 0, received |-> 0,
                   pushed |-> 0, published |-> 0, owed |-> 0]
    /\ panicked = FALSE
    /\ frames = 0
    /\ last = [Type |-> "", GuildID |-> "", unavailable |-> FALSE,
               handled |-> FALSE, ok |-> FALSE, pushed |-> <<>>,
               emitted |-> <<>>, uo |-> FALSE, un |-> FALSE, ic |-> FALSE,
               cacheSame |-> TRUE, unavailablesSame |-> TRUE,
               stored |-> FALSE, samePersisted |-> FALSE, listedFalse |-> FALSE,
               applied |-> FALSE]
    /\ shardReadySince = 0

Init ==
    /\ Configuration \in Configurations
    /\ gatewayConfiguration \in MainConfigurations
    /\ Gateway \in MainGateways
    /\ NewManager

InitFiltered ==
    /\ Configuration \in FilterConfigurations
    /\ gatewayConfiguration \in MainConfigurations
    /\ Gateway \in MainGateways
    /\ NewManager

\* a manager of any configuration, before any answer of GET /gateway/bot
InitOpen ==
    /\ Configuration \in Configurations
    /\ gatewayConfiguration \in GatewayConfigurations
    /\ Gateway \in GatewayBots
    /\ NewManager

pipelineVars == <<Configuration, produceChannel, Unavailables, UnavailableCounters,
                  guilds, roles, channels, guildChannelIndex, emojis, members, mutual,
                  panicked,
                  last, shardReadySince>>

\* a dispatch that does not wait: the event is left out when the channel is full
dispatch_Drop(e) ==
    eventChannel' = IF Len(eventChannel) < QueueCap
                    THEN Append(eventChannel, e) ELSE eventChannel

\* Session.dispatch: s.eventChannel <- *e (blocks while the channel is full)
dispatch(e) ==
    /\ Len(eventChannel) < QueueCap
    /\ eventChannel' = Append(eventChannel, e)

\* Session.Open, after Hello: Identify when there is no session id and no
\* sequence number, Resume otherwise
Handshake(sid, seq) ==
    IF sid = "" /\ seq = 0 THEN Written(OpIdentify, "", 0)
                           ELSE Written(OpResume, sid, seq)

\* Session.Open, from its second ReadMessage: the gateway answers Identify
\* with the READY dispatch, which onEvent puts on the event channel
Open_FirstPacket(gs) ==
    /\ frames < MaxFrames
    /\ dispatch(Event("READY", [guilds |-> gs]))
    /\ session' = "opened"
    /\ wsConn' = TRUE
    /\ sequence' = frames + 1
    /\ observed' = frames + 1
    /\ open' = [result |-> "running", first |-> OpHello, second |-> OpDispatch,
                written |-> <<Handshake(sessionID, sequence)>>,
                dispatched |-> <<"READY">>]
    /\ frames' = frames + 1
    /\ closing' = [closing EXCEPT !.disconnects = 0]
    /\ UNCHANGED <<listening, sessionID, beat, pipelineVars, gatewayVars, backoffVars, shutdownVars, orderVars>>

\* Session.Open: s.dispatch("SHARD_READY", ...), then heartbeat and listen are
\* started and Open returns nil
Open_ShardReady ==
    /\ ~panicked
    /\ session = "opened"
    /\ dispatch(Event("SHARD_READY", [ShardID |-> 0]))
    /\ session' = "listening"
    /\ listening' = TRUE
    /\ open' = [open EXCEPT !.result = "nil",
                            !.dispatched = Append(@, "SHARD_READY")]
    /\ UNCHANGED <<wsConn, sequence, sessionID, observed, beat, closing, frames,
                   pipelineVars, gatewayVars, backoffVars, shutdownVars, orderVars>>

\* Session.listen: the loop is reading the socket
listen == ~panicked /\ session = "listening"

\* Session.listen -> onEvent, for a dispatch frame (op 0); the gateway
\* numbers its dispatch frames one after the other
onEvent(e) ==
    /\ frames < MaxFrames
    /\ dispatch(e)
    /\ sequence' = frames + 1
    /\ observed' = Max(observed, frames + 1)
    /\ frames' = frames + 1
    /\ UNCHANGED <<session, wsConn, listening, sessionID, open, beat, closing,
                   pipelineVars, gatewayVars, backoffVars, shutdownVars, orderVars>>

\* Session.CloseWithStatus: the listening channel is closed, the socket is
\* dropped, SHARD_DISCONNECT dispatched
CloseWithStatus ==
    /\ listen
    /\ dispatch(ShardDisconnect(CloseNormalClosure))
    /\ session' = "closed"
    /\ wsConn' = FALSE
    /\ listening' = FALSE
    /\ closing' = Closing("Manager.Close", CloseNormalClosure)
    /\ UNCHANGED <<sequence, sessionID, open, observed, beat, frames,
                   pipelineVars, gatewayVars, backoffVars, shutdownVars, orderVars>>

\* an onEvent that stores the sequence number of every frame it is given
Session_onEvent_StoresAll(f, seq) ==
    [written |-> CASE f.Op = OpHeartbeat -> <<Written(OpHeartbeat, "", seq)>>
                   [] f.Op = OpInvalidSession -> <<Written(OpIdentify, "", 0)>>
                   [] OTHER -> <<>>,
     events |-> IF f.Op = OpDispatch THEN <<Decoded(f)>> ELSE <<>>,
     sequence |-> f.Sequence,
     reconnect |-> f.Op = OpReconnect]

\* Session.onEvent on frame f when the sequence number is seq: the frames it
\* writes, the events it dispatches, the sequence number it leaves, and
\* whether it goes on to CloseWithStatus and reconnect (op 7)
Session_onEvent(f, seq) ==
    [written |-> CASE f.Op = OpHeartbeat -> <<Written(OpHeartbeat, "", seq)>>
                   [] f.Op = OpInvalidSession -> <<Written(OpIdentify, "", 0)>>
                   [] OTHER -> <<>>,
     events |-> IF f.Op = OpDispatch THEN <<Decoded(f)>> ELSE <<>>,
     sequence |-> IF f.Op = OpDispatch THEN f.Sequence ELSE seq,
     reconnect |-> f.Op = OpReconnect]

\* the heartbeat history after onEvent has handled f
Beat(f) ==
    IF f.Op = OpHeartbeat
    THEN [sent |-> TRUE, value |-> sequence, floor |-> observed]
    ELSE beat

\* Session.Open holds the lock of the session (s.Lock(), defer s.Unlock())
\* while it hands its two frames to onEvent: the CloseWithStatus of op 7 and
\* the s.Lock() of op 11 wait for that lock, and Open never returns
Open_Blocks(f) == f.Op \in {OpReconnect, OpHeartbeatAck}

\* Session.Open up to websocket.DefaultDialer.Dial
Open_Dial ==
    /\ ~panicked
    /\ session = "closed"
    /\ session' = "dialed"
    /\ wsConn' = TRUE
    /\ observed' = 0
    /\ open' = [result |-> "running", first |-> NoOp, second |-> NoOp,
                written |-> <<>>, dispatched |-> <<>>]
    /\ closing' = [closing EXCEPT !.disconnects = 0]
    /\ UNCHANGED <<eventChannel, listening, sequence, sessionID, beat, frames,
                   pipelineVars, gatewayVars, backoffVars, shutdownVars, orderVars>>

\* Session.Open: the first ReadMessage, its onEvent, the test for op 10 and
\* the Identify or Resume.  With op 7 onEvent calls CloseWithStatus, whose
\* s.Lock() waits for the lock Open holds
Open_Hello ==
    /\ ~panicked
    /\ session = "dialed"
    /\ frames < MaxFrames
    /\ \E f \in GatewayFrames :
       \E r \in {Session_onEvent(f, sequence)} :
           /\ Len(eventChannel) + Len(r.events) <= QueueCap
           /\ eventChannel' = eventChannel \o r.events
           /\ sequence' = r.sequence
           /\ observed' = Max(observed, r.sequence)
           /\ beat' = Beat(f)
           /\ frames' = frames + 1
           /\ session' = IF Open_Blocks(f) THEN "stuck"
                         ELSE IF f.Op # OpHello THEN "closed"
                         ELSE "greeted"
           /\ wsConn' = (Open_Blocks(f) \/ f.Op = OpHello)
           /\ open' = [open EXCEPT
                         !.first = f.Op,
                         !.result = IF ~Open_Blocks(f) /\ f.Op # OpHello
                                    THEN "err" ELSE @,
                         !.written =
                            IF f.Op = OpHello
                            THEN @ \o <<Handshake(sessionID, r.sequence)>>
                            ELSE @ \o r.written,
                         !.dispatched =
                            @ \o [i \in DOMAIN r.events |-> r.events[i].Type]]
    /\ UNCHANGED <<listening, sessionID, closing, pipelineVars, gatewayVars, backoffVars, shutdownVars, orderVars>>

\* Session.Open: the second ReadMessage and its onEvent; whatever the frame,
\* Open goes on to dispatch SHARD_READY
Open_Packet ==
    /\ ~panicked
    /\ session = "greeted"
    /\ frames < MaxFrames
    /\ \E f \in GatewayFrames :
       \E r \in {Session_onEvent(f, sequence)} :
           /\ Len(eventChannel) + Len(r.events) <= QueueCap
           /\ eventChannel' = eventChannel \o r.events
           /\ sequence' = r.sequence
           /\ observed' = Max(observed, r.sequence)
           /\ beat' = Beat(f)
           /\ frames' = frames + 1
           /\ session' = IF Open_Blocks(f) THEN "stuck" ELSE "opened"
           /\ open' = [open EXCEPT
                         !.second = f.Op,
                         !.written = @ \o r.written,
                         !.dispatched =
                            @ \o [i \in DOMAIN r.events |-> r.events[i].Type]]
    /\ UNCHANGED <<wsConn, listening, sessionID, closing, pipelineVars,
                   gatewayVars, backoffVars, shutdownVars, orderVars>>

\* Session.listen: ReadMessage and onEvent.  With op 7: CloseWithStatus(4000),
\* which dispatches SHARD_DISCONNECT, then reconnect, which calls Open
Listen ==
    /\ listen
    /\ frames < MaxFrames
    /\ \E f \in GatewayFrames :
       \E r \in {Session_onEvent(f, sequence)} :
       \E events \in {IF r.reconnect
                        THEN <<ShardDisconnect(CloseReconnect)>>
                        ELSE r.events} :
           /\ Len(eventChannel) + Len(events) <= QueueCap
           /\ eventChannel' = eventChannel \o events
           /\ sequence' = r.sequence
           /\ observed' = Max(observed, r.sequence)
           /\ beat' = Beat(f)
           /\ frames' = frames + 1
           /\ session' = IF r.reconnect THEN "closed" ELSE session
           /\ wsConn' = ~r.reconnect
           /\ listening' = ~r.reconnect
           /\ closing' = IF r.reconnect THEN Closing("onEvent", CloseReconnect)
                                        ELSE closing
    /\ UNCHANGED <<sessionID, open, pipelineVars, gatewayVars, backoffVars, shutdownVars, orderVars>>

\* CloseWithStatus: close(s.listening) and s.wsConn.Close(), as the listen
\* goroutine of that connection finds them when it holds a frame it has read
Closed(o) ==
    [o EXCEPT !.inhand = [i \in DOMAIN o.inhand |->
                            [o.inhand[i] EXCEPT !.closed = TRUE]]]

\* Session.heartbeat, one turn of its loop: Heartbeat{1, sequence} is written;
\* when the write fails or the acks have stopped, Close and reconnect
heartbeat ==
    /\ listen
    /\ \E failed \in BOOLEAN :
       \E events \in {IF failed
                        THEN <<ShardDisconnect(CloseNormalClosure)>>
                        ELSE <<>>} :
           /\ Len(eventChannel) + Len(events) <= QueueCap
           /\ eventChannel' = eventChannel \o events
           /\ beat' = [sent |-> TRUE, value |-> sequence, floor |-> observed]
           /\ session' = IF failed THEN "closed" ELSE session
           /\ wsConn' = ~failed
           /\ listening' = ~failed
           /\ closing' = IF failed THEN Closing("heartbeat", CloseNormalClosure)
                                    ELSE closing
           /\ order' = IF failed THEN Closed(order) ELSE order
    /\ UNCHANGED <<sequence, sessionID, open, observed, frames, pipelineVars,
                   gatewayVars, backoffVars, shutdownVars>>

\* Session.Close, as Manager.Close calls it on every session, whatever its
\* state (Open holds the lock of the session while it runs): the listening
\* channel and the socket are dropped if they are there, SHARD_DISCONNECT is
\* dispatched in any case
Close ==
    /\ ~panicked
    /\ session \in {"closed", "listening"}
    /\ closing.disconnects < MaxCloses
    /\ dispatch(ShardDisconnect(CloseNormalClosure))
    /\ session' = "closed"
    /\ wsConn' = FALSE
    /\ listening' = FALSE
    /\ closing' = Closing("Manager.Close", CloseNormalClosure)
    /\ UNCHANGED <<sequence, sessionID, open, observed, beat, frames,
                   pipelineVars, gatewayVars, backoffVars, shutdownVars, orderVars>>

-----------------------------------------------------------------------------
(* session.go: Session.reconnect.  Open is taken by what it returns.       *)

\* the session and the pipeline, but for the state of reconnect
producerNoBackoff == <<eventChannel, session, wsConn, listening, sequence,
                       sessionID, open, observed, beat, closing, frames,
                       pipelineVars, shutdownVars, orderVars>>

\* reconnect: wait := time.Duration(1), and the ceiling of the wait
FirstWait == 1
MaxWait == 600

\* what Open returns: nil, ErrWSAlreadyOpen, or another error
OpenReturns == {"nil", "ErrWSAlreadyOpen", "ErrGatewayNotFound", "dial"}

\* a wait that is doubled without a ceiling
Backoff_NoCeiling(wait) == wait * 2

\* reconnect: wait *= 2; if wait > 600 { wait = 600 }
Backoff(wait) == IF wait * 2 > MaxWait THEN MaxWait ELSE wait * 2

\* reconnect is called (by heartbeat, listen or onEvent) with
\* ShouldReconnectOnError set
reconnect_Enter ==
    /\ reconnect.at = "idle"
    /\ reconnect' = [reconnect EXCEPT !.at = "open", !.wait = FirstWait]
    /\ UNCHANGED <<producerNoBackoff, gatewayVars>>

\* reconnect: err = s.Open(), return on nil and on ErrWSAlreadyOpen
reconnect_Open ==
    /\ reconnect.at = "open"
    /\ Len(reconnect.errs) < MaxAttempts
    /\ \E err \in OpenReturns :
          reconnect' = [reconnect EXCEPT
                          !.errs = Append(@, err),
                          !.at = IF err \in {"nil", "ErrWSAlreadyOpen"}
                                 THEN "done" ELSE "sleep"]
    /\ UNCHANGED <<producerNoBackoff, gatewayVars>>

\* reconnect: <-time.After(wait * time.Second), then the wait is doubled
reconnect_Sleep ==
    /\ reconnect.at = "sleep"
    /\ reconnect' = [reconnect EXCEPT !.slept = Append(@, reconnect.wait),
                                      !.wait = Backoff(reconnect.wait),
                                      !.at = "open"]
    /\ UNCHANGED <<producerNoBackoff, gatewayVars>>

-----------------------------------------------------------------------------
(* gateway/shard.go: Shard.Open and Shard.connect, for the shards that      *)
(* ShardGroup.Start spawns, each in its goroutine                          *)

\* what package gateway leaves alone
producerVars == <<eventChannel, session, wsConn, listening, sequence, sessionID,
                  open, observed, beat, closing, reconnect, frames, pipelineVars,
                  shutdownVars, orderVars>>

\* connect: s.Manager.WaitForIdentifyRatelimit(s.ShardID)
connect_WaitForIdentifyRatelimit ==
    \E sh \in DOMAIN shards :
        /\ shards[sh].at = "open"
        /\ CreateWaitForBucket_Ready(buckets, BucketKey(sh))
        /\ buckets' = CreateWaitForBucket(buckets, BucketKey(sh))
        /\ shards' = [shards EXCEPT ![sh].at = "limited",
                                    ![sh].key = BucketKey(sh)]
        /\ UNCHANGED <<tickets, producerVars, scaleVars, openVars>>

\* the bucket of a key is full again when its refill interval has gone by
Bucket_Refill ==
    \E k \in DOMAIN buckets :
        /\ buckets[k] < BucketCapacity
        /\ buckets' = [buckets EXCEPT ![k] = BucketCapacity]
        /\ UNCHANGED <<shards, tickets, producerVars, scaleVars, openVars>>

\* connect: ticket := s.Manager.ReadyLimiter.Wait()
connect_Wait ==
    \E sh \in DOMAIN shards :
        /\ shards[sh].at = "limited"
        /\ \E t \in tickets :
              /\ tickets' = ConcurrencyLimiter_Wait(tickets, t)
              /\ shards' = [shards EXCEPT ![sh].at = "ticket", ![sh].ticket = t]
        /\ UNCHANGED <<buckets, producerVars, scaleVars, openVars>>

\* connect: s.Manager.ReadyLimiter.FreeTicket(ticket), the statement after Wait
connect_FreeTicket ==
    \E sh \in DOMAIN shards :
        /\ shards[sh].at = "ticket"
        /\ tickets' = ConcurrencyLimiter_FreeTicket(tickets, shards[sh].ticket)
        /\ shards' = [shards EXCEPT ![sh].at = "start", ![sh].ticket = NoTicket]
        /\ UNCHANGED <<buckets, producerVars, scaleVars, openVars>>

\* connect: websocket.Dial
connect_Dial ==
    \E sh \in DOMAIN shards :
        /\ shards[sh].at = "start"
        /\ shards' = [shards EXCEPT ![sh].at = "dialed"]
        /\ UNCHANGED <<tickets, buckets, producerVars, scaleVars, openVars>>

\* connect: the first readMessage, then Identify or Resume is written
connect_Hello ==
    \E sh \in DOMAIN shards :
        /\ shards[sh].at = "dialed"
        /\ shards' = [shards EXCEPT ![sh].at = "identifying"]
        /\ UNCHANGED <<tickets, buckets, producerVars, scaleVars, openVars>>

\* connect, in its loop: readMessage returns the READY or RESUMED dispatch
connect_Ready ==
    \E sh \in DOMAIN shards :
        /\ shards[sh].at = "identifying"
        /\ shards' = [shards EXCEPT ![sh].at = "ready"]
        /\ UNCHANGED <<tickets, buckets, producerVars, scaleVars, openVars>>

\* connect: the first readMessage fails and connect returns the error; Open
\* calls connect again if canContinue(err), and returns otherwise
connect_HelloFails ==
    \E sh \in DOMAIN shards :
        /\ shards[sh].at = "dialed"
        /\ \E status \in ReadErrors :
              shards' = [shards EXCEPT
                           ![sh].err = status,
                           ![sh].key = NoKey,
                           ![sh].at = IF canContinue(status) THEN "open"
                                                             ELSE "ended"]
        /\ UNCHANGED <<tickets, buckets, producerVars, scaleVars, openVars>>

\* connect, in its loop: readMessage fails; with canContinue(err) the loop
\* goes on reading the same socket, otherwise connect and then Open return
connect_ReadFails ==
    \E sh \in DOMAIN shards :
        /\ shards[sh].at \in {"identifying", "ready"}
        /\ \E status \in ReadErrors :
              shards' = [shards EXCEPT
                           ![sh].err = status,
                           ![sh].at = IF canContinue(status) THEN @ ELSE "ended"]
        /\ UNCHANGED <<tickets, buckets, producerVars, scaleVars, openVars>>

\* connect returns (the heartbeat was not acknowledged: Close(4000), return)
\* and Open, finding canContinue(err), calls connect again
Open_Continue ==
    \E sh \in DOMAIN shards :
        /\ shards[sh].at \in {"identifying", "ready"}
        /\ shards' = [shards EXCEPT ![sh].at = "open", ![sh].key = NoKey]
        /\ UNCHANGED <<tickets, buckets, producerVars, scaleVars, openVars>>

-----------------------------------------------------------------------------
(* gateway/shard_group.go: Manager.Scale makes a ShardGroup and calls its   *)
(* Start.  A shard of a group is "connecting" (wsConn is nil), "connected" *)
(* (wsConn is set), "running" (it has identified and read READY) or        *)
(* "closed" (Shard.Close has closed its socket).                           *)

\* what the shard groups leave alone
limiterVars == <<shards, tickets, buckets>>

\* the groups that Manager.ShardGroups holds
Registered == {ShardGroups[k] : k \in DOMAIN ShardGroups} \ {NoGroup}

\* Shard.WaitForReady: "// s.done.Wait()", return: it waits for nothing
WaitForReady(g, sh) == TRUE

\* every shard of the group is RUNNING
Running(g) == \A sh \in ShardIDs : groups[g][sh] = "running"

\* ShardGroup.Stop: shard.Close(4000) for every shard; Shard.Close closes
\* the socket only of a shard whose wsConn is not nil
Stop(gs, g) ==
    [gs EXCEPT ![g] = [sh \in ShardIDs |->
                         IF gs[g][sh] \in {"connected", "running"}
                         THEN "closed" ELSE gs[g][sh]]]

\* Scale: NewShardGroup, then Start up to wg.Wait(): Spawn puts each shard
\* in sg.Shards, starts "go s.Open()" and returns from WaitForReady
Start_Spawn ==
    /\ starting = NoGroup
    /\ Len(groups) < MaxScales
    /\ \A sh \in ShardIDs : WaitForReady(Len(groups) + 1, sh)
    /\ groups' = Append(groups, [sh \in ShardIDs |-> "connecting"])
    /\ starting' = Len(groups) + 1
    /\ UNCHANGED <<ShardGroups, ShardGroupsCounter, stops, limiterVars,
                   producerVars, openVars>>

\* Start after wg.Wait(), sg.err being nil, under ShardGroupsMu: the group at
\* key counter is stopped and deleted when counter is not 0, the counter
\* goes up by one and the new group is stored at the new key
Start_Register ==
    /\ starting # NoGroup
    /\ \E counter \in {ShardGroupsCounter % MaxShardGroups} :
         \E key \in {(ShardGroupsCounter + 1) % MaxShardGroups} :
           IF counter # 0
           THEN /\ groups' = Stop(groups, ShardGroups[counter])
                /\ ShardGroups' = [[ShardGroups EXCEPT ![counter] = NoGroup]
                                      EXCEPT ![key] = starting]
                /\ stops' = stops \cup
                              {[stopped |-> ShardGroups[counter],
                                by |-> starting,
                                running |-> Running(starting)]}
           ELSE /\ ShardGroups' = [ShardGroups EXCEPT ![key] = starting]
                /\ UNCHANGED <<groups, stops>>
    /\ ShardGroupsCounter' = ShardGroupsCounter + 1
    /\ starting' = NoGroup
    /\ UNCHANGED <<limiterVars, producerVars, openVars>>

\* Shard.connect of a shard of a group: websocket.Dial succeeds
Shard_Dial ==
    \E g \in DOMAIN groups : \E sh \in ShardIDs :
        /\ groups[g][sh] = "connecting"
        /\ groups' = [groups EXCEPT ![g][sh] = "connected"]
        /\ UNCHANGED <<ShardGroups, ShardGroupsCounter, starting, stops,
                       limiterVars, producerVars, openVars>>

\* Shard.connect of a shard of a group: READY has been read
Shard_Ready ==
    \E g \in DOMAIN groups : \E sh \in ShardIDs :
        /\ groups[g][sh] = "connected"
        /\ groups' = [groups EXCEPT ![g][sh] = "running"]
        /\ UNCHANGED <<ShardGroups, ShardGroupsCounter, starting, stops,
                       limiterVars, producerVars, openVars>>

-----------------------------------------------------------------------------
(* Manager.Open: the shard count and the shard ids, in package gateway      *)
(* (gateway/manager.go) and in the producer (manager.go)                   *)

\* int(math.Ceil(float64(a) / (float64(n) / float64(d)))), a, n, d > 0
Ceil(a, n, d) == ((a * d) + (n - 1)) \div n

\* the stride of 16 without rounding up: what the division alone gives
RoundUp_Floor(shardCount) ==
    IF shardCount > 63 THEN (shardCount \div 16) * 16 ELSE shardCount

\* gateway Open and GatewayScale: "if shardCount > 63 { shardCount =
\* int(math.Ceil(float64(shardCount)/16)) * 16 }"
RoundUp(shardCount) ==
    IF shardCount > 63 THEN Ceil(shardCount, 16, 1) * 16 ELSE shardCount

\* gateway Open: the recommended count when AutoSharded or when the
\* configured count is under half of it, else the configured count
Open_shardCount(cfg, res) ==
    IF cfg.AutoSharded \/ cfg.ShardCount < (res.Shards \div 2)
    THEN res.Shards ELSE cfg.ShardCount

\* Manager.Open of the producer: the same with math.Ceil(Shards / 2.5)
Open_ShardCount(cfg, res) ==
    IF cfg.AutoSharded \/ cfg.ShardCount < Ceil(res.Shards, 5, 2)
    THEN res.Shards ELSE cfg.ShardCount

\* CreateShardIDs: for i := deployedShards * ClusterID;
\* i < deployedShards * (ClusterID + 1); i++
CreateShardIDs(shardCount, clusterCount, clusterID) ==
    {i \in 0 .. (shardCount + clusterCount) :
        /\ i >= (shardCount \div clusterCount) * clusterID
        /\ i < (shardCount \div clusterCount) * (clusterID + 1)}

\* Scale: NewShardGroup returns no error, and Start returns sg.err, which no
\* Spawn sets: the error of Scale is nil
Scale(shardIDs, shardCount) == "nil"

\* gateway Manager.Open in the process of one cluster: it warns when
\* ShardCount * 2 >= Remaining, chooses and rounds the count, and scales
gateway_Open ==
    \E c \in DOMAIN clusters :
        /\ clusters[c].at = "new"
        /\ \E n \in {Open_shardCount(gatewayConfiguration, Gateway)} :
              clusters' = [clusters EXCEPT ![c] =
                 [at |-> "opened",
                  chosen |-> n,
                  shardCount |-> RoundUp(n),
                  shardIDs |-> CreateShardIDs(RoundUp(n),
                                  gatewayConfiguration.ClusterCount, c),
                  err |-> Scale(CreateShardIDs(RoundUp(n),
                                  gatewayConfiguration.ClusterCount, c),
                                RoundUp(n))]]
        /\ UNCHANGED <<gatewayConfiguration, Gateway, opened, limiterVars,
                       scaleVars, producerVars>>

\* GatewayScale in the process of one cluster: res.Shards is rounded and
\* the manager scales to it
GatewayScale ==
    \E c \in DOMAIN clusters :
        /\ clusters[c].at = "opened"
        /\ clusters' = [clusters EXCEPT ![c] =
              [at |-> "scaled",
               chosen |-> Gateway.Shards,
               shardCount |-> RoundUp(Gateway.Shards),
               shardIDs |-> CreateShardIDs(RoundUp(Gateway.Shards),
                               gatewayConfiguration.ClusterCount, c),
               err |-> Scale(CreateShardIDs(RoundUp(Gateway.Shards),
                               gatewayConfiguration.ClusterCount, c),
                             RoundUp(Gateway.Shards))]]
        /\ UNCHANGED <<gatewayConfiguration, Gateway, opened, limiterVars,
                       scaleVars, producerVars>>

\* Manager.Open of the producer: log.Fatal (the process exits) when the
\* count is above Remaining, else a session for each shard id
Manager_Open ==
    /\ opened.at = "new"
    /\ \E n \in {Open_ShardCount(gatewayConfiguration, Gateway)} :
          opened' = IF n > Gateway.Remaining
                    THEN [at |-> "exited", ShardCount |-> n, Sessions |-> {}]
                    ELSE [at |-> "opened", ShardCount |-> n,
                          Sessions |-> 0 .. (n - 1)]
    /\ UNCHANGED <<gatewayConfiguration, Gateway, clusters, limiterVars,
                   scaleVars, producerVars>>

-----------------------------------------------------------------------------
(* The payloads the gateway sends *)

\* the lists of a guild object: left out of the JSON, or holding one item
Fills == {"absent", "one"}

\* ids are unique over the platform: each guild has its own channel and emoji
ChannelOf(gid) == IF gid = "g1" THEN "c1" ELSE "c2"
EmojiOf(gid) == IF gid = "g1" THEN "e1" ELSE "e2"

FillSlice(fill, vals) ==
    CASE fill = "absent" -> NilSlice
      [] fill = "one" -> Slice(vals)

\* the guild object of GUILD_CREATE and GUILD_UPDATE
GuildPayload(id, fill) ==
    [id |-> id, name |-> "n1",
     roles |-> FillSlice(fill, <<[ID |-> "r1", Name |-> "n1"]>>),
     channels |-> FillSlice(fill, <<Channel(ChannelOf(id), "", ChannelTypeGuildText, "")>>),
     emojis |-> FillSlice(fill, <<[ID |-> EmojiOf(id)]>>),
     members |-> FillSlice(fill, <<[ID |-> "u1"]>>)]

\* the guild lists of READY
ReadyLists == {<<>>, <<"g1">>, <<"g1", "g2">>}

GatewayReady ==
    /\ ~panicked
    /\ session = "closed"
    /\ \E gs \in ReadyLists : Open_FirstPacket(gs)

GatewayGuildCreate ==
    /\ listen
    /\ \E id \in Guilds, fill \in Fills :
          onEvent(Event("GUILD_CREATE", GuildPayload(id, fill)))

GatewayGuildUpdate ==
    /\ listen
    /\ \E id \in Guilds, fill \in Fills :
          onEvent(Event("GUILD_UPDATE", GuildPayload(id, fill)))

GatewayGuildDelete ==
    /\ listen
    /\ \E id \in Guilds, un \in BOOLEAN :
          onEvent(Event("GUILD_DELETE", [id |-> id, unavailable |-> un]))

GatewayGuildRoleCreate ==
    /\ listen
    /\ \E id \in Guilds, rid \in RoleIds, name \in Names :
          onEvent(Event("GUILD_ROLE_CREATE",
                        [guild_id |-> id, role |-> [ID |-> rid, Name |-> name]]))

GatewayGuildRoleUpdate ==
    /\ listen
    /\ \E id \in Guilds, rid \in RoleIds, name \in Names :
          onEvent(Event("GUILD_ROLE_UPDATE",
                        [guild_id |-> id, role |-> [ID |-> rid, Name |-> name]]))

GatewayGuildRoleDelete ==
    /\ listen
    /\ \E id \in Guilds, rid \in RoleIds :
          onEvent(Event("GUILD_ROLE_DELETE", [guild_id |-> id, role_id |-> rid]))

\* channel events: a channel a guild already has (c1 of g1) and a new one;
\* a DM channel names no guild
ChannelIds == {"c1", "c3"}
Pins == {"t1"}

ChannelPayloads ==
    {Channel(id, "g1", ChannelTypeGuildText, "") : id \in ChannelIds}
        \cup {Channel("c3", "", ChannelTypeDM, "")}

GatewayChannelCreate ==
    /\ listen
    /\ \E c \in ChannelPayloads : onEvent(Event("CHANNEL_CREATE", c))

GatewayChannelUpdate ==
    /\ listen
    /\ \E c \in ChannelPayloads : onEvent(Event("CHANNEL_UPDATE", c))

GatewayChannelDelete ==
    /\ listen
    /\ \E c \in ChannelPayloads : onEvent(Event("CHANNEL_DELETE", c))

GatewayChannelPinsUpdate ==
    /\ listen
    /\ \E id \in ChannelIds, t \in Pins :
          onEvent(Event("CHANNEL_PINS_UPDATE",
                        [LastPinTimestamp |-> t, ChannelID |-> id, GuildID |-> "g1"]))

\* member events: the member object, with the id of its user
GatewayGuildMemberAdd ==
    /\ listen
    /\ \E id \in Guilds, u \in Users :
          onEvent(Event("GUILD_MEMBER_ADD", [ID |-> u, GuildID |-> id]))

GatewayGuildMemberRemove ==
    /\ listen
    /\ \E id \in Guilds, u \in Users :
          onEvent(Event("GUILD_MEMBER_REMOVE", [ID |-> u, GuildID |-> id]))

GatewayGuildMemberUpdate ==
    /\ listen
    /\ \E id \in Guilds, u \in Users :
          onEvent(Event("GUILD_MEMBER_UPDATE", [ID |-> u, GuildID |-> id]))

GatewayGuildMembersChunk ==
    /\ listen
    /\ \E id \in Guilds, u \in Users :
          onEvent(Event("GUILD_MEMBERS_CHUNK",
                        [GuildID |-> id, Members |-> <<[ID |-> u]>>]))

\* a type in IgnoredEvents, and a type no marshaler is registered for
GatewayTypingStart ==
    /\ listen
    /\ onEvent(Event("TYPING_START", [id |-> ""]))

GatewayMessageCreate ==
    /\ listen
    /\ onEvent(Event("MESSAGE_CREATE", [id |-> ""]))

-----------------------------------------------------------------------------
(* session.go: Session.listen statement by statement.  The goroutine of a   *)
(* connection reads a frame, tests its listening channel and calls         *)
(* onEvent; heartbeat, in its own goroutine, may close the session and     *)
(* reconnect in between, and Open then starts the next listen goroutine.   *)

\* s without its i-th item
Without(s, i) == SubSeq(s, 1, i - 1) \o SubSeq(s, i + 1, Len(s))

\* listen: wsConn.ReadMessage() returns a dispatch frame, a GUILD_CREATE
listen_ReadMessage ==
    /\ listen
    /\ frames < MaxFrames
    /\ \A i \in DOMAIN order.inhand : order.inhand[i].closed
    /\ \E id \in Guilds, fill \in Fills :
          order' = [order EXCEPT !.inhand =
                      Append(@, [Sequence |-> frames + 1,
                                 e |-> Event("GUILD_CREATE", GuildPayload(id, fill)),
                                 closed |-> FALSE,
                                 selected |-> FALSE])]
    /\ frames' = frames + 1
    /\ UNCHANGED <<eventChannel, session, wsConn, listening, sequence, sessionID,
                   open, observed, beat, closing, pipelineVars, gatewayVars,
                   backoffVars, shutdownVars>>

\* listen: "select { case <-listening: return; default: ... }"
listen_select ==
    /\ ~panicked
    /\ \E i \in DOMAIN order.inhand :
          /\ ~order.inhand[i].selected
          /\ order' = [order EXCEPT !.inhand =
                         IF order.inhand[i].closed
                         THEN Without(@, i)
                         ELSE [@ EXCEPT ![i].selected = TRUE]]
    /\ UNCHANGED <<eventChannel, session, wsConn, listening, sequence, sessionID,
                   open, observed, beat, closing, frames, pipelineVars,
                   gatewayVars, backoffVars, shutdownVars>>

\* listen: s.onEvent(messageType, message) for the frame read: the sequence
\* number is stored and the event dispatched
listen_onEvent ==
    /\ ~panicked
    /\ \E i \in DOMAIN order.inhand :
          /\ order.inhand[i].selected
          /\ dispatch(order.inhand[i].e)
          /\ sequence' = order.inhand[i].Sequence
          /\ observed' = Max(observed, order.inhand[i].Sequence)
          /\ order' = [order EXCEPT
                         !.inhand = Without(@, i),
                         !.queued = Append(@, order.inhand[i].Sequence)]
    /\ UNCHANGED <<session, wsConn, listening, sessionID, open, beat, closing,
                   frames, pipelineVars, gatewayVars, backoffVars, shutdownVars>>

-----------------------------------------------------------------------------
(* manager.go: Manager.ForwardEvents, one turn of its loop *)

\* the guild an event is about ("" when it names none)
GuildOf(e) ==
    CASE e.Type \in {"GUILD_CREATE", "GUILD_UPDATE", "GUILD_DELETE"} -> e.Data.id
      [] e.Type \in {"GUILD_ROLE_CREATE", "GUILD_ROLE_UPDATE", "GUILD_ROLE_DELETE"}
            -> e.Data.guild_id
      [] e.Type \in {"CHANNEL_CREATE", "CHANNEL_UPDATE", "CHANNEL_DELETE",
                     "CHANNEL_PINS_UPDATE", "GUILD_MEMBER_ADD",
                     "GUILD_MEMBER_REMOVE", "GUILD_MEMBER_UPDATE",
                     "GUILD_MEMBERS_CHUNK"}
            -> e.Data.GuildID
      [] OTHER -> ""

\* history: the manager m holds the guild of e as the payload of e gives it
Stored(m, e) ==
    /\ e.Type \in {"GUILD_CREATE", "GUILD_UPDATE"}
    /\ HExists(m.guilds, e.Data.id)
    /\ m.guilds[e.Data.id].id = e.Data.id
    /\ m.guilds[e.Data.id].name = e.Data.name
    /\ m.guilds[e.Data.id].roles.vals = IDs(e.Data.roles)
    /\ m.guilds[e.Data.id].channels.vals = IDs(e.Data.channels)
    /\ m.guilds[e.Data.id].emojis.vals = IDs(e.Data.emojis)
    /\ \A i \in DOMAIN e.Data.roles.vals :
          /\ HExists(m.roles[e.Data.id], e.Data.roles.vals[i].ID)
          /\ m.roles[e.Data.id][e.Data.roles.vals[i].ID] = e.Data.roles.vals[i]
    /\ \A i \in DOMAIN e.Data.channels.vals :
          HExists(m.channels, e.Data.channels.vals[i].ID)
    /\ \A i \in DOMAIN e.Data.emojis.vals :
          HExists(m.emojis, e.Data.emojis.vals[i].ID)

\* history: e is a GUILD_UPDATE whose guild, in the fields that are persisted,
\* is the guild the manager m has in its cache
SamePersisted(m, e) ==
    /\ e.Type = "GUILD_UPDATE"
    /\ HExists(m.guilds, e.Data.id)
    /\ m.guilds[e.Data.id].id = e.Data.id
    /\ m.guilds[e.Data.id].name = e.Data.name
    /\ m.guilds[e.Data.id].roles.vals = IDs(e.Data.roles)
    /\ m.guilds[e.Data.id].channels.vals = IDs(e.Data.channels)
    /\ m.guilds[e.Data.id].emojis.vals = IDs(e.Data.emojis)

\* history: the manager r.m left by the pipeline is the one the marshaler
\* registered for e leaves
Applied(m, r, e) ==
    /\ e.Type \in Marshalers
    /\ CacheOf(r.m) = CacheOf(marshalers(m, e).m)
    /\ r.m.Unavailables = marshalers(m, e).m.Unavailables

\* history: e is a READY and m has Unavailables[gid] = false for each guild of it
ListedFalse(m, e) ==
    /\ e.Type = "READY"
    /\ \A i \in DOMAIN e.Data.guilds :
          /\ HExists(m.Unavailables, e.Data.guilds[i])
          /\ m.Unavailables[e.Data.guilds[i]] = FALSE

Forward(e, rest) ==
    /\ \E ignored \in {belongsToList(Configuration.IgnoredEvents, e.Type)} :
       \E r \in {IF ignored THEN Returned(FALSE, NoStreamEvent, Manager)
                            ELSE OnEvent(Manager, e)} :
       \E push \in {/\ ~ignored
                     /\ ~r.panic
                     /\ r.ok
                     /\ ~belongsToList(Configuration.ProducerBlacklist, e.Type)} :
       \E pushed \in {IF push THEN <<r.se>> ELSE <<>>} :
       \E gid \in {GuildOf(e)} :
           /\ Len(produceChannel) + Len(pushed) <= QueueCap
           /\ eventChannel' = IF shutdown.at \in {"events", "closed"}
                              THEN rest ELSE rest \o r.emit
           /\ produceChannel' = IF shutdown.at = "closed"
                                THEN produceChannel ELSE produceChannel \o pushed
           /\ panicked' = \/ r.panic
                           \/ (pushed # <<>> /\ shutdown.at = "closed")
                           \/ (r.emit # <<>> /\ shutdown.at \in {"events", "closed"})
           /\ shutdown' = IF shutdown.at = "running" THEN shutdown
                          ELSE [shutdown EXCEPT
                                  !.pushed = @ + Len(pushed),
                                  !.owed = IF /\ pushed # <<>>
                                              /\ 1 <= shutdown.received
                                              /\ shutdown.received <= shutdown.to
                                           THEN shutdown.pushed + 1 ELSE @]
           /\ Unavailables' = r.m.Unavailables
           /\ UnavailableCounters' = r.m.UnavailableCounters
           /\ guilds' = r.m.guilds
           /\ roles' = r.m.roles
           /\ channels' = r.m.channels
           /\ emojis' = r.m.emojis
           /\ members' = r.m.members
           /\ mutual' = r.m.mutual
           /\ last' = [Type |-> e.Type, GuildID |-> gid,
                       unavailable |-> e.Type = "GUILD_DELETE" /\ e.Data.unavailable,
                       handled |-> ~ignored, ok |-> r.ok,
                       pushed |-> pushed, emitted |-> r.emit,
                       uo |-> HExists(Unavailables, gid),
                       un |-> HExists(Unavailables, gid) /\ Unavailables[gid],
                       ic |-> HExists(guilds, gid),
                       cacheSame |-> CacheOf(r.m) = CacheOf(Manager),
                       unavailablesSame |-> r.m.Unavailables = Unavailables,
                       stored |-> Stored(r.m, e),
                       samePersisted |-> SamePersisted(Manager, e),
                       listedFalse |-> ListedFalse(r.m, e),
                       applied |-> ~ignored /\ Applied(Manager, r, e)]
           /\ shardReadySince' =
                 IF ~ignored /\ e.Type = "READY" THEN 0
                 ELSE IF push /\ r.se.Type = "SHARD_READY" THEN shardReadySince + 1
                 ELSE shardReadySince
    /\ UNCHANGED <<Configuration, guildChannelIndex, session, wsConn,
                   listening, sequence, sessionID, open, observed, beat, closing,
                   frames,
                   gatewayVars, backoffVars, publishing, orderVars>>

\* manager.go: Manager.ForwardEvents, one turn of its loop: an event is
\* received, handled and, when it is to be forwarded, sent on produceChannel
ForwardEvents ==
    /\ ~panicked
    /\ eventChannel # <<>>
    /\ handling = <<>>
    /\ shutdown.at = "running"
    /\ \E e \in {Head(eventChannel)} : Forward(e, Tail(eventChannel))
    /\ UNCHANGED handling

\* manager.go: Manager.ForwardProduce, one turn of its loop
ForwardProduce ==
    /\ ~panicked
    /\ produceChannel # <<>>
    /\ produceChannel' = Tail(produceChannel)
    /\ UNCHANGED <<Configuration, eventChannel, Unavailables, UnavailableCounters,
                   guilds, roles, channels, guildChannelIndex, emojis, members, mutual,
                   session, wsConn, listening, sequence, sessionID, open,
                   observed, beat, closing, gatewayVars, backoffVars, shutdownVars, orderVars,
                   panicked, frames, last, shardReadySince>>

-----------------------------------------------------------------------------
(* manager.go: Manager.Close, beside the two forwarding goroutines taken    *)
(* statement by statement: a receive from a channel and what follows it    *)
(* are two steps.  The history fields of shutdown count from the call of   *)
(* Close: the events received, and the stream events sent and published.  *)

\* what Manager.Close and the forwarding goroutines leave alone
sessionVars == <<sequence, sessionID, open, observed, beat, frames, reconnect>>
cacheVars == <<Configuration, Unavailables, UnavailableCounters, guilds, roles,
               channels, guildChannelIndex, emojis, members, mutual, panicked,
               last, shardReadySince>>

\* ForwardEvents: "for e := range m.eventChannel" receives an event
ForwardEvents_Receive ==
    /\ ~panicked
    /\ eventChannel # <<>>
    /\ handling = <<>>
    /\ handling' = <<Head(eventChannel)>>
    /\ eventChannel' = Tail(eventChannel)
    /\ shutdown' = IF shutdown.at = "running" THEN shutdown
                   ELSE [shutdown EXCEPT !.received = @ + 1]
    /\ UNCHANGED <<produceChannel, publishing, session, wsConn, listening,
                   closing, sessionVars, cacheVars, gatewayVars, orderVars>>

\* ForwardEvents: the body of the loop for the event received
ForwardEvents_Handle ==
    /\ ~panicked
    /\ handling # <<>>
    /\ \E e \in {handling[1]} : Forward(e, eventChannel)
    /\ handling' = <<>>

\* ForwardProduce: "for e = range m.produceChannel" receives a stream event
ForwardProduce_Receive ==
    /\ ~panicked
    /\ produceChannel # <<>>
    /\ publishing = <<>>
    /\ publishing' = <<Head(produceChannel)>>
    /\ produceChannel' = Tail(produceChannel)
    /\ UNCHANGED <<eventChannel, handling, shutdown, session, wsConn, listening,
                   closing, sessionVars, cacheVars, gatewayVars, orderVars>>

\* ForwardProduce: msgpack.Marshal and stanClient.Publish
ForwardProduce_Publish ==
    /\ ~panicked
    /\ publishing # <<>>
    /\ publishing' = <<>>
    /\ shutdown' = IF shutdown.at = "running" THEN shutdown
                   ELSE IF shutdown.ahead > 0
                   THEN [shutdown EXCEPT !.ahead = @ - 1]
                   ELSE [shutdown EXCEPT !.published = @ + 1]
    /\ UNCHANGED <<eventChannel, produceChannel, handling, session, wsConn,
                   listening, closing, sessionVars, cacheVars, gatewayVars, orderVars>>

\* Manager.Open has opened the session; it is not called again after Close
Manager_Open_Session ==
    /\ shutdown.at = "running"
    /\ GatewayReady

\* Manager.Close is called: history of what the channels hold at that time
Manager_Close ==
    /\ ~panicked
    /\ shutdown.at = "running"
    /\ shutdown' = [shutdown EXCEPT
                      !.at = "called",
                      !.to = Len(eventChannel),
                      !.ahead = Len(produceChannel) + Len(publishing)]
    /\ UNCHANGED <<eventChannel, produceChannel, handling, publishing, session,
                   wsConn, listening, closing, sessionVars, cacheVars,
                   gatewayVars, orderVars>>

\* Manager.Close: "for _, s := range m.Sessions { s.Close() }"
Manager_Close_Sessions ==
    /\ ~panicked
    /\ shutdown.at = "called"
    /\ session \in {"closed", "listening"}
    /\ dispatch(ShardDisconnect(CloseNormalClosure))
    /\ session' = "closed"
    /\ wsConn' = FALSE
    /\ listening' = FALSE
    /\ closing' = Closing("Manager.Close", CloseNormalClosure)
    /\ shutdown' = [shutdown EXCEPT !.at = "sessions"]
    /\ UNCHANGED <<produceChannel, handling, publishing, sessionVars, cacheVars,
                   gatewayVars, orderVars>>

\* Manager.Close: len(m.eventChannel) is 0, close(m.eventChannel)
Manager_Close_eventChannel ==
    /\ ~panicked
    /\ shutdown.at = "sessions"
    /\ Len(eventChannel) = 0
    /\ shutdown' = [shutdown EXCEPT !.at = "events"]
    /\ UNCHANGED <<eventChannel, produceChannel, handling, publishing, session,
                   wsConn, listening, closing, sessionVars, cacheVars,
                   gatewayVars, orderVars>>

\* Manager.Close: len(m.produceChannel) is 0, close(m.produceChannel)
Manager_Close_produceChannel ==
    /\ ~panicked
    /\ shutdown.at = "events"
    /\ Len(produceChannel) = 0
    /\ shutdown' = [shutdown EXCEPT !.at = "closed"]
    /\ UNCHANGED <<eventChannel, produceChannel, handling, publishing, session,
                   wsConn, listening, closing, sessionVars, cacheVars,
                   gatewayVars, orderVars>>

\* the guild lifecycle: READY, GUILD_CREATE, GUILD_UPDATE, GUILD_DELETE, an
\* ignored type, a type without marshaler, and the session closing
Next ==
    \/ GatewayReady
    \/ Open_ShardReady
    \/ GatewayGuildCreate
    \/ GatewayGuildUpdate
    \/ GatewayGuildDelete
    \/ GatewayTypingStart
    \/ GatewayMessageCreate
    \/ CloseWithStatus
    \/ ForwardEvents
    \/ ForwardProduce

Spec == Init /\ [][Next]_vars

\* guilds and their roles: GUILD_CREATE, GUILD_UPDATE and the role events
NextRoles ==
    \/ GatewayReady
    \/ Open_ShardReady
    \/ GatewayGuildCreate
    \/ GatewayGuildUpdate
    \/ GatewayGuildRoleCreate
    \/ GatewayGuildRoleUpdate
    \/ GatewayGuildRoleDelete
    \/ ForwardEvents
    \/ ForwardProduce

SpecRoles == Init /\ [][NextRoles]_vars

\* the role events under a configuration that filters some of them
NextFiltered ==
    \/ GatewayReady
    \/ Open_ShardReady
    \/ GatewayGuildCreate
    \/ GatewayGuildRoleCreate
    \/ GatewayGuildRoleUpdate
    \/ GatewayGuildRoleDelete
    \/ GatewayTypingStart
    \/ ForwardEvents
    \/ ForwardProduce

SpecFiltered == InitFiltered /\ [][NextFiltered]_vars

\* guilds and their channels: GUILD_CREATE and the channel events
NextChannels ==
    \/ GatewayReady
    \/ Open_ShardReady
    \/ GatewayGuildCreate
    \/ GatewayChannelCreate
    \/ GatewayChannelUpdate
    \/ GatewayChannelDelete
    \/ GatewayChannelPinsUpdate
    \/ ForwardEvents
    \/ ForwardProduce

SpecChannels == Init /\ [][NextChannels]_vars

\* the session of shard 0, frame by frame, and the pipeline behind it
NextSession ==
    \/ Open_Dial
    \/ Open_Hello
    \/ Open_Packet
    \/ Open_ShardReady
    \/ Listen
    \/ heartbeat
    \/ ForwardEvents
    \/ ForwardProduce

SpecSession == Init /\ [][NextSession]_vars

\* the session of shard 0 and the calls of Close
NextClose ==
    \/ Open_Dial
    \/ Open_Hello
    \/ Open_Packet
    \/ Open_ShardReady
    \/ Listen
    \/ heartbeat
    \/ Close
    \/ ForwardEvents
    \/ ForwardProduce

SpecClose == Init /\ [][NextClose]_vars

\* one call of Session.reconnect
NextReconnect ==
    \/ reconnect_Enter
    \/ reconnect_Open
    \/ reconnect_Sleep

SpecReconnect == Init /\ [][NextReconnect]_vars

\* package gateway: the shards of a ShardGroup connecting side by side
\* Manager.Scale, called again and again, and the shards it spawns
NextScale ==
    \/ Start_Spawn
    \/ Start_Register
    \/ Shard_Dial
    \/ Shard_Ready

SpecScale == Init /\ [][NextScale]_vars

\* Manager.Open under every configuration and answer of GET /gateway/bot
NextOpen ==
    \/ gateway_Open
    \/ GatewayScale
    \/ Manager_Open

SpecOpen == InitOpen /\ [][NextOpen]_vars

\* the pipeline at work and Manager.Close
NextShutdown ==
    \/ Manager_Open_Session
    \/ Open_ShardReady
    \/ GatewayGuildCreate
    \/ GatewayTypingStart
    \/ ForwardEvents_Receive
    \/ ForwardEvents_Handle
    \/ ForwardProduce_Receive
    \/ ForwardProduce_Publish
    \/ Manager_Close
    \/ Manager_Close_Sessions
    \/ Manager_Close_eventChannel
    \/ Manager_Close_produceChannel

SpecShutdown == Init /\ [][NextShutdown]_vars

\* a session that heartbeat closes and reopens while listen holds a frame
NextOrder ==
    \/ GatewayReady
    \/ Open_ShardReady
    \/ listen_ReadMessage
    \/ listen_select
    \/ listen_onEvent
    \/ heartbeat
    \/ ForwardEvents
    \/ ForwardProduce

SpecOrder == Init /\ [][NextOrder]_vars

NextGateway ==
    \/ connect_WaitForIdentifyRatelimit
    \/ Bucket_Refill
    \/ connect_Wait
    \/ connect_FreeTicket
    \/ connect_Dial
    \/ connect_Hello
    \/ connect_Ready
    \/ connect_HelloFails
    \/ connect_ReadFails
    \/ Open_Continue

SpecGateway == Init /\ [][NextGateway]_vars

\* guilds and their members: GUILD_CREATE, GUILD_DELETE and the member events
NextMembers ==
    \/ GatewayReady
    \/ Open_ShardReady
    \/ GatewayGuildCreate
    \/ GatewayGuildDelete
    \/ GatewayGuildMemberAdd
    \/ GatewayGuildMemberRemove
    \/ GatewayGuildMemberUpdate
    \/ GatewayGuildMembersChunk
    \/ ForwardEvents
    \/ ForwardProduce

SpecMembers == Init /\ [][NextMembers]_vars

-----------------------------------------------------------------------------
(* The properties.  Each is stated over `last`, the record of the event    *)
(* ForwardEvents handled last: the cache and Unavailables change in no     *)
(* other action, so the state in which `last` is read is the state that    *)
(* event left.                                                             *)

\* the event handled last is a GUILD_CREATE that reached its marshaler
GuildCreateHandled == last.Type = "GUILD_CREATE" /\ last.handled

\* the event handled last is a GUILD_DELETE that reached its marshaler
GuildDeleteHandled == last.Type = "GUILD_DELETE" /\ last.handled

\* C1: a GUILD_CREATE for a guild g handled while Unavailables[g] = true and
\* g is in the guild cache returns ok = true and pushes exactly one
\* GUILD_AVAILABLE for g to the produce queue
C1_GuildAvailablePushed ==
    (GuildCreateHandled /\ last.un /\ last.ic)
        => /\ last.ok
           /\ last.pushed = <<StreamEvent("GUILD_AVAILABLE", last.GuildID)>>

C4_EntryRemoved ==
    GuildCreateHandled => ~HExists(Unavailables, last.GuildID)

\* C5: after a GUILD_DELETE with unavailable = false for guild g, the guild,
\* its roles, its channels, its emojis, its members and the mutual-guild
\* memberships it gave are out of the cache, and exactly one GUILD_REMOVE is
\* pushed
C5_GuildRemoved ==
    (GuildDeleteHandled /\ ~last.unavailable)
        => /\ last.pushed = <<StreamEvent("GUILD_REMOVE", last.GuildID)>>
           /\ ~HExists(guilds, last.GuildID)
           /\ roles[last.GuildID] = EmptyHash
           /\ ~HExists(channels, ChannelOf(last.GuildID))
           /\ ~HExists(emojis, EmojiOf(last.GuildID))
           /\ members[last.GuildID] = EmptyHash
           /\ \A u \in Users : last.GuildID \notin mutual[u]

\* C6: a GUILD_DELETE with unavailable = true for guild g sets
\* Unavailables[g] = true, pushes exactly one GUILD_UNAVAILABLE and leaves
\* every cache key as it was
C6_GuildUnavailable ==
    (GuildDeleteHandled /\ last.unavailable)
        => /\ HExists(Unavailables, last.GuildID)
           /\ Unavailables[last.GuildID] = TRUE
           /\ last.pushed = <<StreamEvent("GUILD_UNAVAILABLE", last.GuildID)>>
           /\ last.cacheSame

\* a cached guild, with roles and members, has gone unavailable
C6_Witness ==
    /\ GuildDeleteHandled /\ last.unavailable /\ last.ic
    /\ HExists(guilds, last.GuildID)
    /\ roles[last.GuildID] # EmptyHash
    /\ members[last.GuildID] # EmptyHash

\* C7: for each READY, SHARD_READY is pushed at most once, and not while a
\* guild that READY listed is still in the ready-set of the shard
C7_ShardReadyOnce ==
    /\ shardReadySince <= 1
    /\ (last.Type = "SHARD_READY" /\ last.pushed # <<>>)
          => \A sh \in Shards : UnavailableCounters[sh] = <<>>

\* C8: a GUILD_UPDATE whose guild equals the cached guild on the persisted
\* fields (as after a GUILD_CREATE with the same payload) returns ok = false
\* and pushes nothing
C8_IdenticalUpdateDropped ==
    (last.Type = "GUILD_UPDATE" /\ last.handled /\ last.samePersisted)
        => /\ ~last.ok
           /\ last.pushed = <<>>

\* C9: a READY sets Unavailables[gid] = false for each guild it lists and
\* pushes nothing to the produce queue
C9_ReadyPushesNothing ==
    (last.Type = "READY" /\ last.handled /\ ~panicked)
        => /\ last.listedFalse
           /\ last.pushed = <<>>

\* C10: for every cached guild g, the role ids of g.roles are the keys of the
\* roles hash of g
C10_RolesMatchHash ==
    \A g \in DOMAIN guilds : Range(guilds[g].roles.vals) = DOMAIN roles[g]

\* C11: for every cached channel c that is not a DM, the hash
\* {ns}:guild:{c.guildId}:channels has an entry for c.id, equal to the entry
\* of c.id in {ns}:channels
C11_GuildChannelIndex ==
    \A id \in DOMAIN channels :
        channels[id].Type # ChannelTypeDM
            => /\ HExists(guildChannelIndex[channels[id].GuildID], id)
               /\ guildChannelIndex[channels[id].GuildID][id] = channels[id]

\* C12: with member caching on, for every user u the set
\* {ns}:user:{u}:mutual is the set of the guilds whose members hash holds u
C12_MutualMatchesMembers ==
    Configuration.CacheMembers
        => \A u \in Users :
              mutual[u] = {g \in GuildKeys : HExists(members[g], u)}

\* C13: an event whose type is in IgnoredEvents reaches no marshaler: the
\* cache and Unavailables are as before it, nothing is pushed to the produce
\* channel and nothing is put on the event channel
C13_IgnoredDropped ==
    last.Type \in Configuration.IgnoredEvents
        => /\ ~last.handled
           /\ last.cacheSame
           /\ last.unavailablesSame
           /\ last.pushed = <<>>
           /\ last.emitted = <<>>

\* an ignored GUILD_ROLE_DELETE went through while its guild had roles cached
C13_Witness ==
    /\ last.Type = "GUILD_ROLE_DELETE"
    /\ last.Type \in Configuration.IgnoredEvents
    /\ last.GuildID \in Guilds
    /\ DOMAIN roles[last.GuildID] # {}
    /\ eventChannel = <<>>

C15_HeartbeatMonotone == beat.sent => beat.value >= beat.floor

\* the shards between dial and READY
AwaitingReady == {sh \in GatewayShards : shards[sh].at \in {"dialed", "identifying"}}

\* C16: a shard between dial and READY holds a ReadyLimiter ticket, and at
\* most MaxConcurrentIdentifies shards are between dial and READY
C16_TicketHeldUntilReady ==
    /\ \A sh \in AwaitingReady : shards[sh].ticket # NoTicket
    /\ Cardinality(AwaitingReady) <= MaxConcurrentIdentifies

\* C17: a shard that has dialed has taken the identify bucket of key
\* shardID % MaxConcurrency for this attempt, and for each key at most
\* MaxConcurrency shards are between dial and READY
C17_IdentifyRate ==
    /\ \A sh \in GatewayShards :
          shards[sh].at \in {"dialed", "identifying", "ready"}
              => shards[sh].key = sh % MaxConcurrency
    /\ \A k \in BucketKeys :
          Cardinality({sh \in AwaitingReady : sh % MaxConcurrency = k})
              <= MaxConcurrency

\* C18: when the first frame after the dial is not op 10, Open has returned
\* an error, wsConn is nil, Open has dispatched nothing (no event of the
\* frame, no SHARD_READY) and heartbeat and listen are not started
C18_FirstFrameNotHello ==
    open.first \notin {NoOp, OpHello}
        => /\ open.result = "err"
           /\ ~wsConn
           /\ open.dispatched = <<>>
           /\ ~listening

\* the Identify and Resume frames Open has written
HandshakeFrames ==
    SelectSeq(open.written, LAMBDA w : w.Op \in {OpIdentify, OpResume})

\* C19: after Hello, Open has written one frame: Identify if and only if
\* there is no session id and the sequence is 0, Resume with the session id
\* and the sequence otherwise; and an Open that has returned nil has written
\* exactly one Identify or Resume
C19_IdentifyOrResume ==
    /\ session = "greeted"
          => /\ Len(HandshakeFrames) = 1
             /\ HandshakeFrames[1].Op = OpIdentify
                   <=> (sessionID = "" /\ sequence = 0)
             /\ HandshakeFrames[1].Op = OpResume
                   => /\ HandshakeFrames[1].SessionID = sessionID
                      /\ HandshakeFrames[1].Seq = sequence
    /\ open.result = "nil" => Len(HandshakeFrames) = 1

\* C20: Open dispatches SHARD_READY and returns nil only when the frame that
\* followed Identify or Resume was the READY or the RESUMED dispatch
C20_OpenAfterReady ==
    (open.result = "nil" \/ session = "listening"
        \/ \E i \in DOMAIN open.dispatched : open.dispatched[i] = "SHARD_READY")
        => /\ open.second = OpDispatch
           /\ open.dispatched # <<>>
           /\ open.dispatched[1] \in {"READY", "RESUMED"}

\* C21: when the heartbeat task gives up on the acks, the close frame it
\* sends carries code 4000, and the Open of the reconnect that follows
\* writes Resume with the session id of the session
C21_HeartbeatDeath ==
    closing.by = "heartbeat"
        => /\ closing.code = CloseReconnect
           /\ session = "greeted"
                 => /\ HandshakeFrames[1].Op = OpResume
                    /\ HandshakeFrames[1].SessionID = sessionID

Min(a, b) == IF a <= b THEN a ELSE b

\* C22: the k-th wait of reconnect is min(2^(k-1), 600) seconds (k = 1, 2,
\* ...); reconnect has returned exactly when the last Open returned nil or
\* ErrWSAlreadyOpen; every other return of Open was followed by a wait and
\* another Open
C22_ReconnectBackoff ==
    /\ \A k \in DOMAIN reconnect.slept :
          reconnect.slept[k] = Min(2 ^ (k - 1), MaxWait)
    /\ reconnect.at = "done"
          <=> /\ reconnect.errs # <<>>
              /\ reconnect.errs[Len(reconnect.errs)] \in {"nil", "ErrWSAlreadyOpen"}
    /\ \A i \in DOMAIN reconnect.errs :
          i < Len(reconnect.errs)
              => reconnect.errs[i] \notin {"nil", "ErrWSAlreadyOpen"}
    /\ Len(reconnect.slept) =
          Cardinality({i \in DOMAIN reconnect.errs :
                          reconnect.errs[i] \notin {"nil", "ErrWSAlreadyOpen"}})
          - (IF reconnect.at = "sleep" THEN 1 ELSE 0)

\* eleven Opens have failed, the last wait was the ceiling, then Open
\* returned nil
C22_Witness ==
    /\ reconnect.at = "done"
    /\ Len(reconnect.slept) = 11
    /\ reconnect.slept[10] = 512
    /\ reconnect.slept[11] = MaxWait
    /\ reconnect.errs[12] = "nil"

\* C23: a shard whose connection ended with an error has stopped (its Open
\* has returned) if and only if the close code was 4004, 4010 or 4011
C23_TerminalCloseCodes ==
    \A sh \in GatewayShards :
        shards[sh].err # NoErr
            => (shards[sh].at = "ended"
                  <=> shards[sh].err \in {CloseAuthenticationFailed,
                                          CloseInvalidShard,
                                          CloseShardingRequired})

\* C24: CloseWithStatus on a closed session leaves wsConn and listening nil
\* and dispatches nothing: for one disconnection there is one
\* SHARD_DISCONNECT
C24_CloseIdempotent ==
    /\ session = "closed" => ~wsConn /\ ~listening
    /\ closing.disconnects <= 1

\* C25: whenever no Start is under way, the group started last is the only
\* group in Manager.ShardGroups and every shard of every earlier group has
\* been closed; Start stopped a group only when every shard of the new group
\* was RUNNING; Manager.ShardGroups never holds more than MaxShardGroups
C25_Rescale ==
    /\ \A stop \in stops : stop.running
    /\ Cardinality(Registered) <= MaxShardGroups
    /\ (starting = NoGroup /\ groups # <<>>)
          => /\ Registered = {Len(groups)}
             /\ \A g \in 1 .. (Len(groups) - 1) :
                   \A sh \in ShardIDs : groups[g][sh] = "closed"

\* C26: the shard count that Manager.Open chooses, before the rounding to
\* the stride, is the greater of the configured and the recommended count
C26_ChoosesMax ==
    /\ \A c \in DOMAIN clusters :
          clusters[c].at = "opened"
              => clusters[c].chosen
                    = Max(gatewayConfiguration.ShardCount, Gateway.Shards)
    /\ opened.at # "new"
          => opened.ShardCount
                = Max(gatewayConfiguration.ShardCount, Gateway.Shards)

\* C27: a chosen count of at most 63 is used as it is; a chosen count above
\* 63 becomes the least multiple of 16 that is not below it; the count used
\* is never below the chosen one
C27_StrideRounding ==
    \A c \in DOMAIN clusters :
        clusters[c].at # "new"
            => /\ clusters[c].chosen <= 63
                     => clusters[c].shardCount = clusters[c].chosen
               /\ clusters[c].chosen > 63
                     => /\ clusters[c].shardCount % 16 = 0
                        /\ clusters[c].shardCount - clusters[c].chosen < 16
               /\ clusters[c].shardCount >= clusters[c].chosen

C27_Witness ==
    /\ gatewayConfiguration.ClusterCount = 3
    /\ clusters[0].at = "opened" /\ clusters[0].chosen = 70
    /\ clusters[0].shardCount = 80
    /\ clusters[1].at = "scaled" /\ clusters[1].chosen = 65
    /\ clusters[1].shardCount = 80
    /\ clusters[2].at = "new"

\* C28: when the shard count is above the sessions remaining, Manager.Open
\* fails and no shard is created
C28_NotEnoughSessions ==
    /\ \A c \in DOMAIN clusters :
          (clusters[c].at = "opened" /\ clusters[c].shardCount > Gateway.Remaining)
              => clusters[c].err # "nil" /\ clusters[c].shardIDs = {}
    /\ (opened.at # "new" /\ opened.ShardCount > Gateway.Remaining)
          => opened.at = "exited" /\ opened.Sessions = {}

\* C29: once every cluster has opened, each shard id under the shard count
\* is in the ids of the cluster (id mod ClusterCount) and of no other
C29_ClusterPartition ==
    (\A c \in DOMAIN clusters : clusters[c].at = "opened")
        => \A i \in 0 .. (clusters[0].shardCount - 1) :
              \A c \in DOMAIN clusters :
                  i \in clusters[c].shardIDs
                      <=> c = i % gatewayConfiguration.ClusterCount

\* C30: once Manager.Close has closed the sessions the session is closed;
\* the event queue is empty from its closing on and the produce queue after
\* its own; and when the produce queue is closed, every event that was in
\* the event queue at the call of Close has been handled to its end and the
\* stream events forwarded for those events have been published
C30_ShutdownOrder ==
    /\ shutdown.at \in {"sessions", "events", "closed"} => session = "closed"
    /\ shutdown.at \in {"events", "closed"} => eventChannel = <<>>
    /\ shutdown.at = "closed"
          => /\ produceChannel = <<>>
             /\ \/ shutdown.received > shutdown.to
                \/ (shutdown.received = shutdown.to /\ handling = <<>>)
             /\ shutdown.published >= shutdown.owed

\* C31: the dispatch frames that listen has read reach the event queue in
\* the order the gateway sent them (the order of their frame numbers)
C31_GatewayOrder ==
    \A i, j \in DOMAIN order.queued :
        i < j => order.queued[i] < order.queued[j]

\* C32: neither queue ever holds more than its capacity; a step in which the
\* session takes a dispatch frame happens only while the event queue has
\* room and puts one event at its end; a step in which the pipeline handles
\* an event puts what it forwards at the end of the produce queue
C32_BackPressure ==
    [][/\ Len(eventChannel') <= QueueCap
       /\ Len(produceChannel') <= QueueCap
       /\ frames' = frames + 1
             => /\ Len(eventChannel) < QueueCap
                /\ Len(eventChannel') = Len(eventChannel) + 1
                /\ SubSeq(eventChannel', 1, Len(eventChannel)) = eventChannel
       /\ last' # last
             => /\ produceChannel' = produceChannel \o last'.pushed
                /\ Len(produceChannel) + Len(last'.pushed) <= QueueCap]_vars

C32_Witness ==
    /\ Len(eventChannel) = QueueCap
    /\ Len(produceChannel) = QueueCap
    /\ last.pushed # <<>>
    /\ session = "listening"
    /\ frames < MaxFrames

\* C33: no event that ForwardEvents handles makes its marshaler panic: the
\* goroutine of the pipeline is alive in every reachable state
C33_PipelineGoesOn == panicked = FALSE

\* C34: once ShardGroup.Stop has gone through the shards of a group, no
\* shard of that group completes a dial or reads READY: none of them holds
\* a connection again
C34_Cancellation ==
    \A stop \in stops :
        \A sh \in ShardIDs :
            groups[stop.stopped][sh] \notin {"connected", "running"}

\* C35: when the frame that answers the handshake of Open is op 9 (invalid
\* session), onEvent leaves the session without a session id and without a
\* sequence number, so that the next handshake is an Identify
C35_InvalidSessionResets ==
    [][(session = "greeted" /\ open'.second = OpInvalidSession)
          => /\ sessionID' = ""
             /\ sequence' = 0
             /\ Handshake(sessionID', sequence').Op = OpIdentify]_vars

\* C36: every Resume that Open has written carries a session id that is
\* not empty: a session with a sequence number and no session id writes
\* Identify
C36_ResumeHasSessionID ==
    \A i \in DOMAIN open.written :
        open.written[i].Op = OpResume => open.written[i].SessionID # ""

\* C37: the onEvent of a frame whose op is not 0 (op 1, 7, 9, 10, 11 or an
\* op it does not know) leaves the sequence number as it was and puts no
\* event of the gateway on the event channel; the onEvent of an op 0 frame
\* stores the sequence number of the frame and puts its event on the channel
C37_OnlyDispatchStored ==
    [][/\ (open'.first # open.first /\ open'.first \notin {NoOp, OpDispatch})
            => (sequence' = sequence /\ eventChannel' = eventChannel)
       /\ (open'.second # open.second
              /\ open'.second \notin {NoOp, OpDispatch})
            => (sequence' = sequence /\ eventChannel' = eventChannel)
       /\ (session = "listening" /\ frames' = frames + 1)
            => \/ /\ sequence' = sequence
                  /\ \/ eventChannel' = eventChannel
                     \/ eventChannel' = Append(eventChannel,
                                            ShardDisconnect(CloseReconnect))
               \/ /\ sequence' \in 1 .. MaxSeq
                  /\ Len(eventChannel') = Len(eventChannel) + 1
                  /\ eventChannel'[Len(eventChannel')].Type \in DispatchTypes
       /\ ((open'.first # open.first /\ open'.first = OpDispatch)
              \/ (open'.second # open.second /\ open'.second = OpDispatch))
            => /\ sequence' \in 1 .. MaxSeq
               /\ Len(eventChannel') = Len(eventChannel) + 1
               /\ eventChannel'[Len(eventChannel')].Type \in DispatchTypes]_vars

\* a frame of an unknown op has been handled by a session that had stored a
\* sequence number
C37_Witness ==
    /\ open.second \in UnknownOps
    /\ session = "opened"
    /\ sequence # 0

\* C38: whatever the two frames that Open reads, Open does not wait for the
\* lock of the session that it holds itself: it comes to its return
C38_OpenReturns == session # "stuck"

\* C39: when ForwardEvents comes to the end of the event it holds, it sends
\* no stream event on a produce queue that Manager.Close has closed and no
\* event on an event queue that Manager.Close has closed
C39_NoSendOnClosed ==
    [][(handling # <<>> /\ handling' = <<>>)
          => /\ shutdown.at = "closed" => last'.pushed = <<>>
             /\ shutdown.at \in {"events", "closed"} => last'.emitted = <<>>]_vars

\* C40: a role or channel event that names a guild the cache does not hold
\* makes no guild entry: no field of the hash {ns}:guilds is the empty id,
\* the id of the zero MarshalGuild
C40_NoGuildFromRoleOrChannel ==
    \A id \in DOMAIN guilds : id \in Guilds /\ id # ""

====
